---- MODULE Spec2Model ----
(***************************************************************************)
(* TwitchBuddy: the trigger cache and its hot swap into the chat client,   *)
(* the message handler with its cooldown, the interval scheduler and the   *)
(* batching ClickHouse logger, as state machines.  One section per         *)
(* component; each section has its own specification, the variables of the *)
(* other components stay at their initial values.                          *)
(***************************************************************************)
EXTENDS Integers, Sequences, FiniteSets, TLC

VARIABLES
  \* ---- trigger store, TriggerCache, ChatClient ----
  store,      \* rows of the triggers table, in rowid order
  cached,     \* TriggerCache._cached
  cacheLock,  \* holder of TriggerCache._lock, or "free"
  rpc,        \* per caller of refresh(): position inside refresh()
  snapshot,   \* per caller: refresh()'s local `snapshot`
  newList,    \* per caller: _on_cache_refresh's local `new`
  triggers,   \* ChatClient.triggers
  trigLock,   \* holder of ChatClient._triggers_lock, or "free"
  apc,        \* position of the auto-refresh thread inside _run
  stopEv,     \* TriggerCache._stop
  startAsked, \* the latest of start_auto_refresh / stop_auto_refresh to return was start
  refreshesSinceStop, \* refresh() calls _run began since _stop was set (at most 2 counted)
  sleepTotal, \* _run's local `total`
  usedIds,    \* ids uuid4 has handed out: an id is never reused
  \* ---- message handler ----
  now,        \* time.time(), seconds
  hpc,        \* per handler: position inside _handle_message
  hmsg,       \* per handler: content
  scanList,   \* per handler: the list object the scan iterates
  scanIdx,    \* per handler: the iterator's index
  scanOut,    \* per handler: `out` / `matches`
  fireIdx,    \* per handler: index of the for loop over matches
  hlive,      \* per handler: its Trigger objects are those of self.triggers
  sameList,   \* per handler: the list object it scans is the one self.triggers names
  effects,    \* per handler: what it did for the message, in order: each
              \* mark_fired, reply_callable and on_alert call
  \* ---- a caller of ChatClient.add_trigger / remove_trigger ----
  epc,        \* where the caller is inside add_trigger or remove_trigger
  eid,        \* the caller's tid / trigger_id
  erows,      \* remove_trigger: the rows of list_triggers() not yet iterated
  engineAdded,   \* the ids add_trigger has returned
  engineRemoved, \* the ids remove_trigger has returned True for
  \* ---- TriggerCache listeners ----
  listeners,  \* TriggerCache._listeners
  pending,    \* per caller of refresh(): the listeners its loop has yet to call
  copied,     \* per caller: the copy list(self._listeners) its loop runs over
  called,     \* per caller: the calls its loop made, each with its argument
  \* ---- a caller of TriggerCache.list_cached_triggers ----
  lpc,        \* where the caller is: "idle" or at `with self._lock`
  listResult, \* what its latest call returned
  \* ---- Scheduler ----
  schedDb,    \* the schedules table: per id a row, or none
  schedules,  \* Scheduler._schedules: per id the Schedule loaded, or none
  inTasks,    \* the ids that are keys of Scheduler._tasks
  tpc,        \* per id: where its _run_schedule task is
  tSched,     \* per id: the Schedule object `s` its task runs on
  sleepLeft,  \* per id: minutes left of the task's asyncio.sleep
  \* ---- BatchedClickHouseLogger ----
  logQ,       \* self._q, the ids of the queued events, oldest first
  buf,        \* _run's buf
  first_ts,   \* _run's first_ts, NoTs for None
  logStop,    \* self._stop is set
  wpc,        \* where the worker thread is in _run
  wakeAt,     \* when the worker's q.get(timeout) gives up
  lnow,       \* time.time() in seconds
  flushes,    \* the calls of the sink, oldest first
  streamCheck,\* a stream_check is configured
  pollInterval, \* self._poll_interval
  cpc,        \* where close() is
  deadline,   \* close()'s deadline
  closeWake,  \* when close()'s time.sleep(step) is over
  nextEv,     \* the id of the next event that is logged
  \* ---- observations (history, not program state) ----
  scanSeen,   \* per handler: the triggers the scan's loop body has seen
  scanStart,  \* per handler: self.triggers when the scan took the lock
  swapsSeen,  \* per handler: lists swapped in while the scan was running
  decisions,  \* per handler: one record per trigger the scan looked at
  cachedAtCall,\* per caller: _cached when its refresh() took the lock
  lastFireAt, \* per trigger id: time of its latest mark_fired, 0 = never
  suppressedN,\* scans that matched a trigger but its cooldown held it back
  sendsSinceOff, \* per schedule: sends since enabled=false was last written
  failsSinceOff, \* per schedule: failed re-reads of the flag since then
  usedSchedIds,  \* schedule ids uuid4 has handed out: an id is never reused
  removeReturned,  \* per schedule: remove(id) was called while a timer was
                   \* running for id, and has returned
  sentAfterRemove, \* per schedule: a send was invoked after remove(id) returned
  stopped,       \* stop() has returned and start() was not called since
  sentSinceStop, \* a send was invoked while stopped
  stopTouchedDb, \* a stop() call changed the schedules table
  waited,        \* per task: minutes since start() created it or since its
                 \* last send
  wasOff,        \* per task: since start() created it the enabled flag in
                 \* the store was false or the row was gone
  sendFailed,    \* per task: a send of it has raised
  goneSends,     \* per schedule: sends since an external actor deleted the
                 \* row: 0, 1, or 2 for two and more
  goneDiff,      \* per schedule: those sends minus the re-reads that have
                 \* failed since the delete
  started,       \* start() was called and stop() was not called since
  unseen,        \* per schedule: minutes since an external actor wrote
                 \* enabled = true, in a started scheduler, for a schedule
                 \* with no timer running; -1 when there is no such write
  closeStart,    \* when close() was called, NoTs before
  firstCheck,    \* what close() learned at its first check
  pollSawLive,   \* a poll of close()'s grace loop saw the stream live
  stopSetAt,     \* when self._stop was set, NoTs before
  queuedAtStop   \* the events logged before self._stop was set

stopVars == <<stopEv, refreshesSinceStop, startAsked>>
chatVars == <<store, cached, cacheLock, rpc, snapshot, newList, triggers,
              trigLock, apc, stopVars, sleepTotal, usedIds>>
liveVars == <<hlive, sameList>>
handlerVars == <<now, hpc, hmsg, scanList, scanIdx, scanOut, fireIdx, liveVars,
                 effects>>
histVars == <<scanSeen, scanStart, swapsSeen, decisions, cachedAtCall,
              lastFireAt, suppressedN>>
schedObs == <<removeReturned, sentAfterRemove, stopped,
              sentSinceStop, stopTouchedDb>>
timerObs == <<waited, wasOff, sendFailed>>
toggleObs == <<started, unseen>>
goneObs == <<goneSends, goneDiff>>
schedVars == <<schedDb, schedules, inTasks, tpc, tSched, sleepLeft,
               sendsSinceOff, failsSinceOff, usedSchedIds, schedObs,
               timerObs, toggleObs, goneObs>>
logVars == <<logQ, buf, first_ts, logStop, wpc, wakeAt, lnow, flushes,
             streamCheck, pollInterval, cpc, deadline, closeWake, nextEv,
             closeStart, firstCheck, pollSawLive, stopSetAt, queuedAtStop>>
listVars == <<lpc, listResult>>
lsnVars == <<listeners, pending, copied, called>>
engineVars == <<epc, eid, erows, engineAdded, engineRemoved>>
vars == <<chatVars, handlerVars, histVars, schedVars, logVars, listVars, lsnVars, engineVars>>

----------------------------------------------------------------------------
(* Python values *)

PyNone == [tag |-> "None"]
PyDict(keys) == [tag |-> "dict", keys |-> keys]
PyStr(s) == [tag |-> "str", s |-> s]
\* Python truthiness of None, a dict, a str
Truthy(v) ==
  CASE v.tag = "None" -> FALSE
    [] v.tag = "dict" -> v.keys # {}
    [] v.tag = "str"  -> v.s # ""

Range(s) == {s[i] : i \in 1..Len(s)}

----------------------------------------------------------------------------
(* Patterns and messages: strings are sequences of characters *)

PatHello == <<"h", "i">>
PatCheer == <<"c">>
PatBad   == <<"(", "h">>

\* re.compile raises re.error on an unterminated group
Compilable(p) == "(" \notin Range(p)

\* re.search of a literal pattern: it occurs somewhere in the text
Search(p, text) ==
  \E k \in 0..(Len(text) - Len(p)) :
    \A j \in 1..Len(p) : text[k + j] = p[j]

Messages == { <<"h", "i", "x">>, <<"x", "c">>, <<"h", "x", "i">> }
\* with a message that several patterns occur in
MessagesFire == Messages \cup { <<"h", "i", "c">> }

----------------------------------------------------------------------------
(* Bounds *)

\* the clock stops advancing here
MaxNow == 1070
\* cap of the history counter
MaxCount == 1

\* time.time() when the model starts: any value above every cooldown
StartNow == 1000
\* the steps the clock advances by
TickSteps == {10, 50}

----------------------------------------------------------------------------
(* The triggers table *)

TriggerIds == {1, 2, 3}
\* Trigger.id of a Trigger built without trigger_id: None
NoId == 0
\* ids of rows that are only ever in the table from the start
PresetIds == {4}

\* StoredTrigger rows as list_triggers() builds them
Row(id) ==
  CASE id = 1 -> [id |-> 1, regex_pattern |-> PatHello, response_type_id |-> 1,
                  response_text |-> PyStr("Hi!"), arg_mappings |-> PyNone,
                  cooldown_minutes |-> 0, last_fired |-> 0]
    [] id = 2 -> [id |-> 2, regex_pattern |-> PatBad, response_type_id |-> 1,
                  response_text |-> PyStr("no"), arg_mappings |-> PyNone,
                  cooldown_minutes |-> 0, last_fired |-> 0]
    [] id = 3 -> [id |-> 3, regex_pattern |-> PatCheer, response_type_id |-> 2,
                  response_text |-> PyNone, arg_mappings |-> PyDict({"user"}),
                  cooldown_minutes |-> 1, last_fired |-> 0]
    [] id = 4 -> [id |-> 4, regex_pattern |-> PatCheer, response_type_id |-> 2,
                  response_text |-> PyNone, arg_mappings |-> PyNone,
                  cooldown_minutes |-> 0, last_fired |-> 0]

StoreIds == {store[i].id : i \in 1..Len(store)}

\* TriggerStore.add_trigger: INSERT, last_fired 0.0
StoreInsert(id) == Append(store, Row(id))

\* TriggerStore.remove_trigger: DELETE WHERE id = ?
StoreDelete(id) == SelectSeq(store, LAMBDA r : r.id # id)

\* TriggerStore.update_last_fired: UPDATE ... WHERE id = ?
StoreUpdateLastFired(id, ts) ==
  [i \in 1..Len(store) |->
     IF store[i].id = id THEN [store[i] EXCEPT !.last_fired = ts] ELSE store[i]]

----------------------------------------------------------------------------
(* Trigger objects *)

\* Trigger.__init__ for a row, as _on_cache_refresh calls it
MakeTrigger(st) ==
  [id |-> st.id, pattern |-> st.regex_pattern,
   response |-> IF st.response_type_id = 1 THEN st.response_text ELSE PyNone,
   alert |-> IF st.response_type_id = 1 THEN PyNone
             ELSE IF Truthy(st.arg_mappings) THEN PyDict({"args"})
             ELSE PyDict({}),
   cooldown_minutes |-> st.cooldown_minutes,
   last_fired |-> st.last_fired]

\* the rows _on_cache_refresh makes a Trigger of
Handled(rows) == SelectSeq(rows, LAMBDA st : st.response_type_id \in {1, 2})

\* _on_cache_refresh raises out of its loop at the first row whose pattern
\* does not compile
ListenerRaises(rows) ==
  \E i \in 1..Len(Handled(rows)) : ~Compilable(Handled(rows)[i].regex_pattern)

\* the list `new` when the loop completes
BuildNew(rows) ==
  [i \in 1..Len(Handled(rows)) |-> MakeTrigger(Handled(rows)[i])]

\* Trigger.matches
Matches(trig, text) == Search(trig.pattern, text)

\* a cooldown that still holds at the very second it runs out
CanFireStrict(trig, t) == (t - trig.last_fired) > (trig.cooldown_minutes * 60)

\* Trigger.can_fire at time t
CanFire(trig, t) == (t - trig.last_fired) >= (trig.cooldown_minutes * 60)

\* Trigger.mark_fired at time t, on the object with this id inside a list
MarkFiredIn(list, id, t) ==
  [i \in 1..Len(list) |->
     IF list[i].id = id THEN [list[i] EXCEPT !.last_fired = t] ELSE list[i]]

----------------------------------------------------------------------------
(* ChatClient._handle_message, one coroutine per message *)

Handlers == {"h1", "h2"}
Free == "free"

\* ChatClient.on_alert is set by the host application
OnAlertRegistered == TRUE

Min(a, b) == IF a < b THEN a ELSE b

\* the event loop's thread can run the coroutine of h: it is not inside
\* another coroutine between mark_fired() and the end of the synchronous
\* update_last_fired() call, where there is no await
LoopFree(h) == \A g \in Handlers \ {h} : hpc[g] # "persist"

\* the event loop hands a message to _handle_message, which offloads the scan
HStart(h, m) ==
  /\ hpc[h] = "idle"
  /\ LoopFree(h)
  /\ hpc' = [hpc EXCEPT ![h] = "to_thread"]
  /\ hmsg' = [hmsg EXCEPT ![h] = m]
  /\ scanOut' = [scanOut EXCEPT ![h] = <<>>]
  /\ effects' = [effects EXCEPT ![h] = <<>>]
  /\ decisions' = [decisions EXCEPT ![h] = <<>>]
  /\ scanSeen' = [scanSeen EXCEPT ![h] = <<>>]
  /\ UNCHANGED <<schedVars, logVars, listVars, lsnVars, engineVars, chatVars, now, scanList, scanIdx, fireIdx, liveVars, scanStart,
                 swapsSeen, cachedAtCall, lastFireAt, suppressedN>>

\* _find_matching_triggers: `with self._triggers_lock:` and the for loop
\* binding the list object self.triggers names at that moment
HScanBegin(h) ==
  /\ hpc[h] = "to_thread"
  /\ trigLock = Free
  /\ trigLock' = h
  /\ hpc' = [hpc EXCEPT ![h] = "scan"]
  /\ scanList' = [scanList EXCEPT ![h] = triggers]
  /\ scanIdx' = [scanIdx EXCEPT ![h] = 0]
  /\ hlive' = [hlive EXCEPT ![h] = TRUE]
  /\ sameList' = [sameList EXCEPT ![h] = TRUE]
  /\ scanStart' = [scanStart EXCEPT ![h] = triggers]
  /\ swapsSeen' = [swapsSeen EXCEPT ![h] = {}]
  /\ UNCHANGED <<schedVars, logVars, listVars, lsnVars, engineVars, store, cached, cacheLock, rpc, snapshot, newList, triggers,
                 apc, stopVars, sleepTotal, usedIds, now, hmsg, scanOut, fireIdx, effects,
                 scanSeen, decisions, cachedAtCall, lastFireAt, suppressedN>>

\* one turn of the loop body: trig.matches(content) and trig.can_fire()
HScanStep(h) ==
  /\ hpc[h] = "scan"
  /\ scanIdx[h] < Len(scanList[h])
  /\ LET trig == scanList[h][scanIdx[h] + 1]
         matched == Matches(trig, hmsg[h])
         selected == matched /\ CanFire(trig, now)
     IN /\ scanOut' = [scanOut EXCEPT ![h] =
                         IF selected THEN Append(@, trig) ELSE @]
        /\ scanSeen' = [scanSeen EXCEPT ![h] = Append(@, trig)]
        /\ decisions' = [decisions EXCEPT ![h] =
             IF matched
             THEN Append(@, [id |-> trig.id, at |-> now, selected |-> selected,
                             prev |-> lastFireAt[trig.id],
                             cd |-> trig.cooldown_minutes])
             ELSE @]
        /\ suppressedN' = IF matched /\ ~selected
                          THEN Min(suppressedN + 1, MaxCount) ELSE suppressedN
  /\ scanIdx' = [scanIdx EXCEPT ![h] = @ + 1]
  /\ UNCHANGED <<schedVars, logVars, listVars, lsnVars, engineVars, chatVars, now, hpc, hmsg, scanList, fireIdx, liveVars, effects,
                 scanStart, swapsSeen, cachedAtCall, lastFireAt>>

\* the iterator is exhausted: leave the with block, return `out` to the
\* coroutine
HScanEnd(h) ==
  /\ hpc[h] = "scan"
  /\ scanIdx[h] >= Len(scanList[h])
  /\ trigLock' = Free
  /\ hpc' = [hpc EXCEPT ![h] = IF scanOut[h] = <<>> THEN "idle" ELSE "mark"]
  /\ fireIdx' = [fireIdx EXCEPT ![h] = 1]
  /\ UNCHANGED <<schedVars, logVars, listVars, lsnVars, engineVars, store, cached, cacheLock, rpc, snapshot, newList, triggers,
                 apc, stopVars, sleepTotal, usedIds, now, hmsg, scanList, scanIdx, scanOut,
                 liveVars, effects, histVars>>

\* trig.mark_fired(): the Trigger object is the one inside self.triggers
\* (and inside every list that holds the same object) unless the list was
\* replaced since the scan
HMark(h) ==
  /\ hpc[h] = "mark"
  /\ LoopFree(h)
  /\ LET trig == scanOut[h][fireIdx[h]]
         same(g) == g = h \/ (hlive[h] /\ hlive[g])
     IN /\ scanOut' = [g \in Handlers |->
                         IF same(g) THEN MarkFiredIn(scanOut[g], trig.id, now)
                         ELSE scanOut[g]]
        /\ scanList' = [g \in Handlers |->
                          IF same(g) THEN MarkFiredIn(scanList[g], trig.id, now)
                          ELSE scanList[g]]
        /\ triggers' = IF hlive[h] THEN MarkFiredIn(triggers, trig.id, now)
                       ELSE triggers
        /\ lastFireAt' = [lastFireAt EXCEPT ![trig.id] = now]
        /\ effects' = [effects EXCEPT ![h] =
                         Append(@, [kind |-> "mark", id |-> trig.id, ok |-> TRUE,
                                    arg |-> PyNone])]
  /\ hpc' = [hpc EXCEPT ![h] = "persist"]
  /\ UNCHANGED <<schedVars, logVars, listVars, lsnVars, engineVars, store, cached, cacheLock, rpc, snapshot, newList, trigLock,
                 apc, stopVars, sleepTotal, usedIds, now, hmsg, scanIdx, fireIdx,
                 liveVars, scanSeen, scanStart, swapsSeen, decisions,
                 cachedAtCall, suppressedN>>

\* trigger_store.update_last_fired(trig.id, trig._last_fired), failures ignored
HPersist(h, ok) ==
  /\ hpc[h] = "persist"
  /\ LET trig == scanOut[h][fireIdx[h]]
     IN store' = IF ok THEN StoreUpdateLastFired(trig.id, trig.last_fired)
                 ELSE store
  /\ effects' = [effects EXCEPT ![h] =
       Append(@, [kind |-> "persist", id |-> scanOut[h][fireIdx[h]].id,
                  ok |-> ok, arg |-> PyNone])]
  /\ hpc' = [hpc EXCEPT ![h] = "emit"]
  /\ UNCHANGED <<schedVars, logVars, listVars, lsnVars, engineVars, cached, cacheLock, rpc, snapshot, newList, triggers, trigLock,
                 apc, stopVars, sleepTotal, usedIds, now, hmsg, scanList, scanIdx, scanOut,
                 fireIdx, liveVars, histVars>>

\* what the handler sends for one fired trigger: reply_callable(trig.response)
\* if trig.response, self.on_alert(trig.alert) if trig.alert and self.on_alert
Emitted(trig, ok) ==
  (IF Truthy(trig.response)
   THEN <<[kind |-> "reply", id |-> trig.id, ok |-> ok, arg |-> trig.response]>>
   ELSE <<>>)
  \o
  (IF Truthy(trig.alert) /\ OnAlertRegistered
   THEN <<[kind |-> "alert", id |-> trig.id, ok |-> ok, arg |-> trig.alert]>>
   ELSE <<>>)

\* the reply and the alert of one trigger, send failures ignored; then the
\* next turn of `for trig in matches`
HEmit(h, ok) ==
  /\ hpc[h] = "emit"
  /\ LoopFree(h)
  /\ effects' = [effects EXCEPT ![h] = @ \o Emitted(scanOut[h][fireIdx[h]], ok)]
  /\ fireIdx' = [fireIdx EXCEPT ![h] = @ + 1]
  /\ hpc' = [hpc EXCEPT ![h] =
               IF fireIdx[h] < Len(scanOut[h]) THEN "mark" ELSE "idle"]
  /\ UNCHANGED <<schedVars, logVars, listVars, lsnVars, engineVars, chatVars, now, hmsg, scanList, scanIdx, scanOut, liveVars,
                 histVars>>

\* time passes
Tick ==
  /\ \E d \in TickSteps :
       /\ now + d <= MaxNow
       /\ now' = now + d
  /\ UNCHANGED <<schedVars, logVars, listVars, lsnVars, engineVars, chatVars, hpc, hmsg, scanList, scanIdx, scanOut, fireIdx,
                 liveVars, effects, histVars>>

----------------------------------------------------------------------------
(* TriggerCache.refresh and the chat client's listener *)

Refreshers == {"admin", "auto"}

IdsOf(list) == [i \in 1..Len(list) |-> list[i].id]

\* TriggerCache.list_cached_triggers: a copy of _cached
ListCachedTriggers == cached

\* list_cached_triggers() is called: the caller arrives at `with self._lock`
ListCall ==
  /\ lpc = "idle"
  /\ lpc' = "lock"
  /\ UNCHANGED <<listResult, lsnVars, engineVars, chatVars, handlerVars, histVars, schedVars, logVars>>

\* list_cached_triggers(): the lock is taken, list(self._cached) returned
ListReturn ==
  /\ lpc = "lock"
  /\ cacheLock = Free
  /\ listResult' = ListCachedTriggers
  /\ lpc' = "idle"
  /\ UNCHANGED <<lsnVars, engineVars, chatVars, handlerVars, histVars, schedVars, logVars>>

\* refresh(): `with self._lock:`
RLock(t) ==
  /\ rpc[t] = "lock"
  /\ cacheLock = Free
  /\ cacheLock' = t
  /\ rpc' = [rpc EXCEPT ![t] = "read"]
  /\ cachedAtCall' = [cachedAtCall EXCEPT ![t] = cached]
  /\ UNCHANGED <<schedVars, logVars, listVars, lsnVars, engineVars, store, cached, snapshot, newList, triggers, trigLock, apc,
                 stopVars, sleepTotal, usedIds, handlerVars, scanSeen, scanStart,
                 swapsSeen, decisions, lastFireAt, suppressedN>>

\* self._cached = self._store.list_triggers(); snapshot = list(self._cached);
\* the lock is released
RReadOk(t) ==
  /\ rpc[t] = "read"
  /\ cached' = store
  /\ snapshot' = [snapshot EXCEPT ![t] = store]
  /\ cacheLock' = Free
  /\ rpc' = [rpc EXCEPT ![t] = "notify"]
  /\ UNCHANGED <<schedVars, logVars, listVars, lsnVars, engineVars, store, newList, triggers, trigLock, apc, stopVars, sleepTotal,
                 usedIds, handlerVars, histVars>>

\* list_triggers() raises: the with block releases the lock and the exception
\* leaves refresh()
RReadFail(t) ==
  /\ rpc[t] = "read"
  /\ cacheLock' = Free
  /\ rpc' = [rpc EXCEPT ![t] = "raised"]
  /\ UNCHANGED <<schedVars, logVars, listVars, lsnVars, engineVars, store, cached, snapshot, newList, triggers, trigLock, apc,
                 stopVars, sleepTotal, usedIds, handlerVars, histVars>>

\* listener(snapshot): _on_cache_refresh builds `new`; when a Trigger cannot
\* be built its exception ends the listener and refresh() ignores it
RListener(t) ==
  /\ rpc[t] = "notify"
  /\ rpc' = [rpc EXCEPT ![t] =
               IF ListenerRaises(snapshot[t]) THEN "returned" ELSE "swap"]
  /\ newList' = [newList EXCEPT ![t] =
                   IF ListenerRaises(snapshot[t]) THEN @
                   ELSE BuildNew(snapshot[t])]
  /\ UNCHANGED <<schedVars, logVars, listVars, lsnVars, engineVars, store, cached, cacheLock, snapshot, triggers, trigLock, apc,
                 stopVars, sleepTotal, usedIds, handlerVars, histVars>>

\* the same swap done without the lock and inside the list object
\* (self.triggers[:] = new), as remove_trigger rebuilds the list
RSwapInPlaceUnlocked(t) ==
  /\ rpc[t] = "swap"
  /\ triggers' = newList[t]
  /\ scanList' = [h \in Handlers |->
                    IF hpc[h] = "scan" THEN newList[t] ELSE scanList[h]]
  /\ swapsSeen' = [h \in Handlers |->
                     IF hpc[h] = "scan" THEN swapsSeen[h] \cup {newList[t]}
                     ELSE swapsSeen[h]]
  /\ hlive' = [h \in Handlers |-> FALSE]
  /\ sameList' = [h \in Handlers |-> FALSE]
  /\ rpc' = [rpc EXCEPT ![t] = "returned"]
  /\ UNCHANGED <<schedVars, logVars, listVars, lsnVars, engineVars, store, cached, cacheLock, snapshot, newList, trigLock, apc,
                 stopVars, sleepTotal, usedIds, now, hpc, hmsg, scanIdx, scanOut,
                 fireIdx, effects, scanSeen, scanStart, decisions,
                 cachedAtCall, lastFireAt, suppressedN>>

\* `with self._triggers_lock: self.triggers = new`: self.triggers names a new
\* list object, the Trigger objects a handler still holds are no longer the
\* chat client's
RSwap(t) ==
  /\ rpc[t] = "swap"
  /\ trigLock = Free
  /\ triggers' = newList[t]
  /\ swapsSeen' = [h \in Handlers |->
                     IF hpc[h] = "scan" THEN swapsSeen[h] \cup {newList[t]}
                     ELSE swapsSeen[h]]
  /\ hlive' = [h \in Handlers |-> FALSE]
  /\ sameList' = [h \in Handlers |-> FALSE]
  /\ rpc' = [rpc EXCEPT ![t] = "returned"]
  /\ UNCHANGED <<schedVars, logVars, listVars, lsnVars, engineVars, store, cached, cacheLock, snapshot, newList, trigLock, apc,
                 stopVars, sleepTotal, usedIds, now, hpc, hmsg, scanList, scanIdx,
                 scanOut, fireIdx, effects, scanSeen, scanStart, decisions,
                 cachedAtCall, lastFireAt, suppressedN>>

\* refresh() is over: its locals, and those of the listener, are gone
RefreshLocalsGone(t) ==
  /\ snapshot' = [snapshot EXCEPT ![t] = <<>>]
  /\ newList' = [newList EXCEPT ![t] = <<>>]
  /\ cachedAtCall' = [cachedAtCall EXCEPT ![t] = <<>>]

\* the admin endpoints: create_trigger writes the row and calls
\* notify_change()
AdminCreate(id) ==
  /\ rpc["admin"] = "idle"
  /\ id \notin usedIds
  /\ store' = StoreInsert(id)
  /\ usedIds' = usedIds \cup {id}
  /\ rpc' = [rpc EXCEPT !["admin"] = "lock"]
  /\ UNCHANGED <<schedVars, logVars, listVars, lsnVars, engineVars, cached, cacheLock, snapshot, newList, triggers, trigLock, apc,
                 stopVars, sleepTotal, handlerVars, histVars>>

\* delete_trigger: 404 without a row, else the row is deleted and
\* notify_change() called
AdminDelete(id) ==
  /\ rpc["admin"] = "idle"
  /\ id \in StoreIds
  /\ store' = StoreDelete(id)
  /\ rpc' = [rpc EXCEPT !["admin"] = "lock"]
  /\ UNCHANGED <<schedVars, logVars, listVars, lsnVars, engineVars, cached, cacheLock, snapshot, newList, triggers, trigLock, apc,
                 stopVars, sleepTotal, usedIds, handlerVars, histVars>>

\* notify_change(): try: self.refresh() except Exception: pass
NotifyChangeReturn ==
  /\ rpc["admin"] \in {"returned", "raised"}
  /\ rpc' = [rpc EXCEPT !["admin"] = "idle"]
  /\ RefreshLocalsGone("admin")
  /\ UNCHANGED <<schedVars, logVars, listVars, lsnVars, engineVars, store, cached, cacheLock, triggers, trigLock, apc, stopVars,
                 sleepTotal, usedIds, handlerVars, scanSeen, scanStart,
                 swapsSeen, decisions, lastFireAt, suppressedN>>

----------------------------------------------------------------------------
(* ChatClient.add_trigger and ChatClient.remove_trigger *)

engineShared == <<cached, cacheLock, rpc, snapshot, newList, trigLock, apc,
                  stopVars, sleepTotal, now, hpc, hmsg, scanIdx, scanOut,
                  fireIdx, effects, histVars>>

\* list.append / list.clear on the list object self.triggers names: a scan
\* iterating that same object iterates the changed list
InPlace(h, list) ==
  IF hpc[h] = "scan" /\ sameList[h] THEN list ELSE scanList[h]

\* add_trigger: tid = self.trigger_store.add_trigger(...), the INSERT
EngineAddStore(id) ==
  /\ epc = "idle"
  /\ id \notin usedIds
  /\ store' = StoreInsert(id)
  /\ usedIds' = usedIds \cup {id}
  /\ eid' = id
  /\ epc' = "add_append"
  /\ UNCHANGED <<schedVars, logVars, listVars, lsnVars, engineShared, triggers,
                 scanList, liveVars, erows, engineAdded, engineRemoved>>

\* add_trigger: self.triggers.append(Trigger(...)) and return tid; Trigger()
\* raises on a pattern that does not compile and nothing is appended
EngineAddAppend ==
  /\ epc = "add_append"
  /\ LET ok == Compilable(Row(eid).regex_pattern)
         new == IF ok THEN <<MakeTrigger(Row(eid))>> ELSE <<>>
     IN /\ triggers' = triggers \o new
        /\ scanList' = [h \in Handlers |-> InPlace(h, scanList[h] \o new)]
        /\ engineAdded' = IF ok THEN engineAdded \cup {eid} ELSE engineAdded
  /\ eid' = NoId
  /\ epc' = "idle"
  /\ UNCHANGED <<schedVars, logVars, listVars, lsnVars, engineShared, store, usedIds,
                 liveVars, erows, engineRemoved>>

\* remove_trigger: ok = self.trigger_store.remove_trigger(trigger_id), the
\* DELETE; without a row ok is False and remove_trigger returns it
EngineRemoveStore(id) ==
  /\ epc = "idle"
  /\ store' = StoreDelete(id)
  /\ epc' = IF id \in StoreIds THEN "rm_clear" ELSE "idle"
  /\ eid' = IF id \in StoreIds THEN id ELSE NoId
  /\ UNCHANGED <<schedVars, logVars, listVars, lsnVars, engineShared, triggers,
                 usedIds, scanList, liveVars, erows, engineAdded,
                 engineRemoved>>

\* remove_trigger: self.triggers.clear(); the Trigger objects a handler
\* holds are no longer in the list
EngineRemoveClear ==
  /\ epc = "rm_clear"
  /\ triggers' = <<>>
  /\ scanList' = [h \in Handlers |-> InPlace(h, <<>>)]
  /\ hlive' = [h \in Handlers |-> FALSE]
  /\ epc' = "rm_read"
  /\ UNCHANGED <<schedVars, logVars, listVars, lsnVars, engineShared, store, usedIds,
                 sameList, eid, erows, engineAdded, engineRemoved>>

\* remove_trigger: self.trigger_store.list_triggers()
EngineRemoveRead ==
  /\ epc = "rm_read"
  /\ erows' = store
  /\ epc' = "rm_append"
  /\ UNCHANGED <<schedVars, logVars, listVars, lsnVars, engineShared, store, triggers,
                 usedIds, scanList, liveVars, eid, engineAdded,
                 engineRemoved>>

\* the Trigger remove_trigger builds of a row: no trigger_id, no last_fired
RebuiltTrigger(st) ==
  [MakeTrigger(st) EXCEPT !.id = NoId, !.last_fired = 0]

\* remove_trigger: one turn of `for st in ...list_triggers()`, appending to
\* self.triggers; Trigger() raises on a pattern that does not compile and the
\* exception leaves remove_trigger; after the last turn, return ok
EngineRemoveAppend ==
  /\ epc = "rm_append"
  /\ LET more == erows # <<>>
         handled == more /\ Head(erows).response_type_id \in {1, 2}
         raises == handled /\ ~Compilable(Head(erows).regex_pattern)
         new == IF handled /\ ~raises
                THEN <<RebuiltTrigger(Head(erows))>> ELSE <<>>
     IN /\ triggers' = triggers \o new
        /\ scanList' = [h \in Handlers |-> InPlace(h, scanList[h] \o new)]
        /\ erows' = IF more /\ ~raises THEN Tail(erows) ELSE <<>>
        /\ epc' = IF more /\ ~raises THEN "rm_append" ELSE "idle"
        /\ eid' = IF more /\ ~raises THEN eid ELSE NoId
        /\ engineRemoved' = IF more THEN engineRemoved
                            ELSE engineRemoved \cup {eid}
  /\ UNCHANGED <<schedVars, logVars, listVars, lsnVars, engineShared, store, usedIds,
                 liveVars, engineAdded>>

----------------------------------------------------------------------------
(* Another party at ChatClient._triggers_lock *)

\* lock.acquire() by a party that is not a handler
GuardAcquire ==
  /\ trigLock = Free
  /\ trigLock' = "other"
  /\ UNCHANGED <<schedVars, logVars, listVars, lsnVars, engineVars, store, cached,
                 cacheLock, rpc, snapshot, newList, triggers, apc, stopVars,
                 sleepTotal, usedIds, handlerVars, histVars>>

\* a release() that leaves the lock held
GuardKept == trigLock = "other" /\ UNCHANGED vars

\* lock.release() by that party
GuardRelease ==
  /\ trigLock = "other"
  /\ trigLock' = Free
  /\ UNCHANGED <<schedVars, logVars, listVars, lsnVars, engineVars, store, cached,
                 cacheLock, rpc, snapshot, newList, triggers, apc, stopVars,
                 sleepTotal, usedIds, handlerVars, histVars>>

----------------------------------------------------------------------------
(* TriggerCache listeners: register_listener, unregister_listener and the
   notification loop of refresh() *)

ListenerIds == {"engine", "a"}
\* what a listener does when called: return, raise, or call back into the
\* cache (list_cached_triggers, register_listener, unregister_listener)
ListenerOps == {"return", "raise", "list", "register", "unregister"}

\* self._listeners after register_listener(x) / unregister_listener(x) (a
\* listener that is not registered: ValueError, ignored)
Registered(x) == Append(listeners, x)
Unregistered(x) == SelectSeq(listeners, LAMBDA l : l # x)

\* register_listener / unregister_listener called by a thread of its own,
\* under self._lock
Register(x) ==
  /\ cacheLock = Free
  /\ x \notin Range(listeners)
  /\ listeners' = Registered(x)
  /\ UNCHANGED <<pending, copied, called, chatVars, handlerVars, histVars,
                 schedVars, logVars, listVars, engineVars>>

Unregister(x) ==
  /\ cacheLock = Free
  /\ x \in Range(listeners)
  /\ listeners' = Unregistered(x)
  /\ UNCHANGED <<pending, copied, called, chatVars, handlerVars, histVars,
                 schedVars, logVars, listVars, engineVars>>

\* refresh(): `for listener in list(self._listeners)`, the copy
LNotify(t) ==
  /\ rpc[t] = "notify"
  /\ pending' = [pending EXCEPT ![t] = listeners]
  /\ copied' = [copied EXCEPT ![t] = listeners]
  /\ called' = [called EXCEPT ![t] = <<>>]
  /\ rpc' = [rpc EXCEPT ![t] = IF listeners = <<>> THEN "returned" ELSE "calling"]
  /\ UNCHANGED <<listeners, store, cached, cacheLock, snapshot, newList,
                 triggers, trigLock, apc, stopVars, sleepTotal, usedIds,
                 handlerVars, histVars, schedVars, logVars, listVars,
                 engineVars>>

\* a raising listener ends the loop
StopsAtRaise(op, rest) == IF op = "raise" THEN <<>> ELSE rest

\* `except Exception: continue`
ContinuesAfter(op, rest) == rest

\* one turn of the loop: listener(snapshot) inside try; a listener that calls
\* back into the cache takes self._lock there
LCall(t, op, x) ==
  /\ rpc[t] = "calling"
  /\ op \in {"list", "register", "unregister"} => cacheLock = Free
  /\ listeners' = CASE op = "register" /\ x \notin Range(listeners) -> Registered(x)
                    [] op = "unregister" -> Unregistered(x)
                    [] OTHER -> listeners
  /\ called' = [called EXCEPT ![t] =
                  Append(@, [listener |-> Head(pending[t]), op |-> op,
                             arg |-> snapshot[t]])]
  /\ pending' = [pending EXCEPT ![t] = ContinuesAfter(op, Tail(@))]
  /\ rpc' = [rpc EXCEPT ![t] =
               IF pending'[t] = <<>> THEN "returned" ELSE "calling"]
  /\ UNCHANGED <<copied, store, cached, cacheLock, snapshot, newList,
                 triggers, trigLock, apc, stopVars, sleepTotal, usedIds,
                 handlerVars, histVars, schedVars, logVars, listVars,
                 engineVars>>

----------------------------------------------------------------------------
(* TriggerCache.start_auto_refresh, its thread _run, stop_auto_refresh *)

\* refresh_interval, in turns of the one-second sleep
RefreshInterval == 2

\* what a call of stream_check() can do
CheckResults == {"live", "offline", "raise"}

autoShared == <<store, cached, cacheLock, triggers, trigLock, usedIds,
                handlerVars, scanSeen, scanStart, swapsSeen, decisions,
                lastFireAt, suppressedN>>
autoLocals == <<snapshot, newList, cachedAtCall>>
autoRest == <<autoShared, autoLocals>>

\* the refresh() calls _run has begun since _stop was set, one more when it
\* begins one now
BegunSinceStop(begins) ==
  IF begins /\ stopEv /\ refreshesSinceStop < 2
  THEN refreshesSinceStop + 1 ELSE refreshesSinceStop

\* start_auto_refresh: nothing when the thread is alive, else clear _stop and
\* start a thread on _run
StartAutoRefresh ==
  /\ IF apc \in {"off", "exited", "crashed"}
     THEN /\ stopEv' = FALSE
          /\ refreshesSinceStop' = 0
          /\ apc' = "first_check"
     ELSE UNCHANGED <<stopEv, refreshesSinceStop, apc>>
  /\ startAsked' = TRUE
  /\ UNCHANGED <<schedVars, logVars, listVars, lsnVars, engineVars, rpc, sleepTotal, autoRest>>

\* stop_auto_refresh: nothing without a thread, else set _stop (and join for
\* at most a second)
StopAutoRefresh ==
  /\ apc # "off"
  /\ stopEv' = TRUE
  /\ startAsked' = FALSE
  /\ UNCHANGED <<refreshesSinceStop, schedVars, logVars, listVars, lsnVars, engineVars, apc, rpc, sleepTotal, autoRest>>

\* _run, the first try: stream_check() holds, refresh() is called; it does
\* not hold, nothing; it raises, the except branch calls refresh()
AutoFirstCheck(res) ==
  /\ apc = "first_check"
  /\ apc' = CASE res = "live" -> "first_refresh"
              [] res = "offline" -> "loop_top"
              [] res = "raise" -> "retry_refresh"
  /\ rpc' = [rpc EXCEPT !["auto"] = IF res = "offline" THEN @ ELSE "lock"]
  /\ refreshesSinceStop' = BegunSinceStop(res # "offline")
  /\ UNCHANGED <<schedVars, logVars, listVars, lsnVars, engineVars, stopEv, startAsked, sleepTotal, autoRest>>

\* the first refresh() is over: returned, go on to the loop; raised, the
\* except branch calls refresh() again
AutoFirstRefreshOver ==
  /\ apc = "first_refresh"
  /\ rpc["auto"] \in {"returned", "raised"}
  /\ apc' = IF rpc["auto"] = "returned" THEN "loop_top" ELSE "retry_refresh"
  /\ rpc' = [rpc EXCEPT !["auto"] = IF @ = "returned" THEN "idle" ELSE "lock"]
  /\ refreshesSinceStop' = BegunSinceStop(rpc["auto"] = "raised")
  /\ RefreshLocalsGone("auto")
  /\ UNCHANGED <<schedVars, logVars, listVars, lsnVars, engineVars, stopEv, startAsked, sleepTotal, autoShared>>

\* the refresh() of the except branch is over: returned, go on to the loop;
\* raised, nothing catches it and the thread ends
AutoRetryOver ==
  /\ apc = "retry_refresh"
  /\ rpc["auto"] \in {"returned", "raised"}
  /\ apc' = IF rpc["auto"] = "returned" THEN "loop_top" ELSE "crashed"
  /\ rpc' = [rpc EXCEPT !["auto"] = "idle"]
  /\ RefreshLocalsGone("auto")
  /\ UNCHANGED <<schedVars, logVars, listVars, lsnVars, engineVars, stopVars, sleepTotal, autoShared>>

\* while not self._stop.is_set()
AutoLoopTop ==
  /\ apc = "loop_top"
  /\ apc' = IF stopEv THEN "exited" ELSE "loop_check"
  /\ UNCHANGED <<schedVars, logVars, listVars, lsnVars, engineVars, stopVars, rpc, sleepTotal, autoRest>>

\* the loop's try: refresh() when stream_check() holds; an exception of
\* stream_check() is swallowed
AutoLoopCheck(res) ==
  /\ apc = "loop_check"
  /\ apc' = IF res = "live" THEN "loop_refresh" ELSE "sleep"
  /\ rpc' = [rpc EXCEPT !["auto"] = IF res = "live" THEN "lock" ELSE @]
  /\ refreshesSinceStop' = BegunSinceStop(res = "live")
  /\ sleepTotal' = 0
  /\ UNCHANGED <<schedVars, logVars, listVars, lsnVars, engineVars, stopEv, startAsked, autoRest>>

\* the loop's refresh() is over; an exception of it is swallowed
AutoLoopRefreshOver ==
  /\ apc = "loop_refresh"
  /\ rpc["auto"] \in {"returned", "raised"}
  /\ apc' = "sleep"
  /\ rpc' = [rpc EXCEPT !["auto"] = "idle"]
  /\ sleepTotal' = 0
  /\ RefreshLocalsGone("auto")
  /\ UNCHANGED <<schedVars, logVars, listVars, lsnVars, engineVars, stopVars, autoShared>>

\* while total < refresh_interval and not self._stop.is_set(): sleep(1)
AutoSleep ==
  /\ apc = "sleep"
  /\ IF sleepTotal < RefreshInterval /\ ~stopEv
     THEN sleepTotal' = sleepTotal + 1 /\ apc' = apc
     ELSE sleepTotal' = 0 /\ apc' = "loop_top"
  /\ UNCHANGED <<schedVars, logVars, listVars, lsnVars, engineVars, stopVars, rpc, autoRest>>

----------------------------------------------------------------------------
(* Scheduler *)

SchedIds == {1, 2}
\* interval_minutes of the schedules that are added
Intervals == {0, 1, 2}
\* a store whose reads fail does so at most this often while a flag is off
MaxReadFails == 2

NoRow == [present |-> FALSE]
SchedRow(interval, enabled) ==
  [present |-> TRUE, interval_minutes |-> interval, enabled |-> enabled]

othersOfSched == <<chatVars, handlerVars, histVars, logVars, listVars, lsnVars, engineVars>>

\* Scheduler.load: self._schedules is rebuilt from the table
Loaded == [id \in SchedIds |-> schedDb[id]]

\* Scheduler.add: INSERT under a fresh uuid, self._schedules[sid] = s; no
\* task is started
SchedAdd(id, interval, enabled) ==
  /\ id \notin usedSchedIds
  /\ usedSchedIds' = usedSchedIds \cup {id}
  /\ schedDb' = [schedDb EXCEPT ![id] = SchedRow(interval, enabled)]
  /\ schedules' = [schedules EXCEPT ![id] = SchedRow(interval, enabled)]
  /\ sendsSinceOff' = [sendsSinceOff EXCEPT ![id] = 0]
  /\ failsSinceOff' = [failsSinceOff EXCEPT ![id] = 0]
  /\ removeReturned' = [removeReturned EXCEPT ![id] = FALSE]
  /\ sentAfterRemove' = [sentAfterRemove EXCEPT ![id] = FALSE]
  /\ UNCHANGED timerObs
  /\ UNCHANGED toggleObs
  /\ UNCHANGED goneObs
  /\ UNCHANGED <<inTasks, tpc, tSched, sleepLeft, stopped,
                 sentSinceStop, stopTouchedDb, othersOfSched>>

\* a cancel() that leaves the task running
CancelIgnored(pc) == pc

\* task.cancel(): CancelledError reaches the task at the await it is
\* suspended in, and _run_schedule returns
Cancelled(pc) == IF pc \in {"sleeping", "sending"} THEN "cancelled" ELSE pc

\* the locals of the tasks: those of a task that has returned are gone
LiveLocals(pcs, locals, gone) ==
  [id \in SchedIds |->
     IF pcs[id] \in {"sleeping", "sending"} THEN locals[id] ELSE gone]

\* Scheduler.remove: DELETE; only when a row was deleted is the task popped
\* and cancelled and the Schedule dropped
SchedRemove(id) ==
  /\ schedDb' = [schedDb EXCEPT ![id] = NoRow]
  /\ IF schedDb[id].present
     THEN /\ inTasks' = inTasks \ {id}
          /\ tpc' = [tpc EXCEPT ![id] = IF id \in inTasks THEN Cancelled(@) ELSE @]
          /\ schedules' = [schedules EXCEPT ![id] = NoRow]
     ELSE UNCHANGED <<inTasks, tpc, schedules>>
  /\ tSched' = LiveLocals(tpc', tSched, NoRow)
  /\ sleepLeft' = LiveLocals(tpc', sleepLeft, 0)
  /\ sendsSinceOff' = [sendsSinceOff EXCEPT ![id] = 0]
  /\ failsSinceOff' = [failsSinceOff EXCEPT ![id] = 0]
  /\ removeReturned' = [removeReturned EXCEPT ![id] =
                          @ \/ tpc[id] \in {"sleeping", "sending"}]
  /\ waited' = LiveLocals(tpc', waited, 0)
  /\ wasOff' = [t \in SchedIds |-> t \in inTasks' /\ wasOff[t]]
  /\ sendFailed' = LiveLocals(tpc', sendFailed, FALSE)
  /\ unseen' = [unseen EXCEPT ![id] = -1]
  /\ UNCHANGED started
  /\ UNCHANGED goneObs
  /\ UNCHANGED <<sentAfterRemove, stopped, sentSinceStop,
                 stopTouchedDb, usedSchedIds,
                 othersOfSched>>

\* the ids start() creates a task for: enabled as loaded, no entry in _tasks
ToStart == {id \in SchedIds :
              Loaded[id].present /\ Loaded[id].enabled /\ id \notin inTasks}

\* Scheduler.start: load(), then a task for every enabled schedule that has
\* no entry in self._tasks; the task runs to its first await, the sleep
SchedStart ==
  /\ schedules' = Loaded
  /\ inTasks' = inTasks \cup ToStart
  /\ tpc' = [id \in SchedIds |-> IF id \in ToStart THEN "sleeping" ELSE tpc[id]]
  /\ tSched' = [id \in SchedIds |-> IF id \in ToStart THEN Loaded[id] ELSE tSched[id]]
  /\ sleepLeft' = [id \in SchedIds |->
                     IF id \in ToStart THEN Loaded[id].interval_minutes
                     ELSE sleepLeft[id]]
  /\ stopped' = FALSE
  /\ sentSinceStop' = FALSE
  /\ waited' = [id \in SchedIds |-> IF id \in ToStart THEN 0 ELSE waited[id]]
  /\ wasOff' = [id \in SchedIds |-> IF id \in ToStart THEN FALSE ELSE wasOff[id]]
  /\ sendFailed' = [id \in SchedIds |->
                      IF id \in ToStart THEN FALSE ELSE sendFailed[id]]
  /\ started' = TRUE
  /\ unseen' = [id \in SchedIds |-> IF id \in ToStart THEN -1 ELSE unseen[id]]
  /\ UNCHANGED goneObs
  /\ UNCHANGED <<schedDb, sendsSinceOff, failsSinceOff, removeReturned,
                 sentAfterRemove, stopTouchedDb, usedSchedIds,
                 othersOfSched>>

\* Scheduler.stop: every task in self._tasks is cancelled, the map cleared
SchedStop ==
  /\ tpc' = [id \in SchedIds |-> IF id \in inTasks THEN Cancelled(tpc[id]) ELSE tpc[id]]
  /\ inTasks' = {}
  /\ stopped' = TRUE
  /\ UNCHANGED schedDb
  /\ stopTouchedDb' = (stopTouchedDb \/ schedDb' # schedDb)
  /\ tSched' = LiveLocals(tpc', tSched, NoRow)
  /\ sleepLeft' = LiveLocals(tpc', sleepLeft, 0)
  /\ waited' = LiveLocals(tpc', waited, 0)
  /\ wasOff' = [t \in SchedIds |-> t \in inTasks' /\ wasOff[t]]
  /\ sendFailed' = LiveLocals(tpc', sendFailed, FALSE)
  /\ started' = FALSE
  /\ unseen' = [id \in SchedIds |-> -1]
  /\ UNCHANGED goneObs
  /\ UNCHANGED <<schedules, sendsSinceOff,
                 failsSinceOff, removeReturned, sentAfterRemove,
                 sentSinceStop, usedSchedIds,
                 othersOfSched>>

\* an external actor writes the enabled flag of a row
ExtSetEnabled(id, b) ==
  /\ schedDb[id].present
  /\ schedDb[id].enabled # b
  /\ schedDb' = [schedDb EXCEPT ![id].enabled = b]
  /\ sendsSinceOff' = [sendsSinceOff EXCEPT ![id] = 0]
  /\ failsSinceOff' = [failsSinceOff EXCEPT ![id] = 0]
  /\ wasOff' = [wasOff EXCEPT ![id] =
                  @ \/ (~b /\ tpc[id] \in {"sleeping", "sending"})]
  /\ unseen' = [unseen EXCEPT ![id] =
                  IF b /\ started /\ tpc[id] \notin {"sleeping", "sending"}
                  THEN 0 ELSE -1]
  /\ UNCHANGED started
  /\ UNCHANGED goneObs
  /\ UNCHANGED <<waited, sendFailed>>
  /\ UNCHANGED <<schedules, inTasks, tpc, tSched, sleepLeft, schedObs,
                 usedSchedIds,
                 othersOfSched>>

\* an external actor deletes a row
ExtDelete(id) ==
  /\ schedDb[id].present
  /\ schedDb' = [schedDb EXCEPT ![id] = NoRow]
  /\ sendsSinceOff' = [sendsSinceOff EXCEPT ![id] = 0]
  /\ failsSinceOff' = [failsSinceOff EXCEPT ![id] = 0]
  /\ wasOff' = [wasOff EXCEPT ![id] = @ \/ tpc[id] \in {"sleeping", "sending"}]
  /\ unseen' = [unseen EXCEPT ![id] = -1]
  /\ UNCHANGED started
  /\ goneSends' = [goneSends EXCEPT ![id] = 0]
  /\ goneDiff' = [goneDiff EXCEPT ![id] = 0]
  /\ UNCHANGED <<waited, sendFailed>>
  /\ UNCHANGED <<schedules, inTasks, tpc, tSched, sleepLeft, schedObs,
                 usedSchedIds,
                 othersOfSched>>

\* a minute passes for every sleeping task; a task whose sleep is over runs
\* before more time passes
SchedTick ==
  /\ \E id \in SchedIds : tpc[id] = "sleeping"
  /\ \A id \in SchedIds : tpc[id] = "sleeping" => sleepLeft[id] > 0
  /\ sleepLeft' = [id \in SchedIds |->
                     IF tpc[id] = "sleeping" THEN sleepLeft[id] - 1
                     ELSE sleepLeft[id]]
  /\ waited' = [id \in SchedIds |->
                  IF tpc[id] = "sleeping" THEN waited[id] + 1 ELSE waited[id]]
  /\ unseen' = [id \in SchedIds |->
                  IF /\ unseen[id] >= 0
                     /\ unseen[id] <= schedDb[id].interval_minutes
                  THEN unseen[id] + 1 ELSE unseen[id]]
  /\ UNCHANGED started
  /\ UNCHANGED goneObs
  /\ UNCHANGED <<wasOff, sendFailed>>
  /\ UNCHANGED <<schedDb, schedules, inTasks, tpc, tSched, sendsSinceOff,
                 failsSinceOff, schedObs, usedSchedIds,
                 othersOfSched>>

\* what a re-read of the store that succeeds ends the loop on: the flag is
\* false, or the row is gone
StoreSaysStop(id) == ~schedDb[id].present \/ ~schedDb[id].enabled

\* _run_schedule: the sleep is over, await self._send(s.message)
TaskSend(id) ==
  /\ tpc[id] = "sleeping"
  /\ sleepLeft[id] = 0
  /\ tpc' = [tpc EXCEPT ![id] = "sending"]
  /\ sendsSinceOff' = [sendsSinceOff EXCEPT ![id] =
       IF schedDb[id].present /\ ~schedDb[id].enabled THEN @ + 1 ELSE @]
  /\ sentAfterRemove' = [sentAfterRemove EXCEPT ![id] = @ \/ removeReturned[id]]
  /\ sentSinceStop' = (sentSinceStop \/ stopped)
  /\ UNCHANGED timerObs
  /\ UNCHANGED toggleObs
  /\ goneSends' = [goneSends EXCEPT ![id] =
                     IF ~schedDb[id].present /\ @ < 2 THEN @ + 1 ELSE @]
  /\ goneDiff' = [goneDiff EXCEPT ![id] =
                    IF ~schedDb[id].present THEN @ + 1 ELSE @]
  /\ UNCHANGED <<schedDb, schedules, inTasks, tSched, sleepLeft,
                 failsSinceOff, removeReturned, stopped,
                 stopTouchedDb, usedSchedIds,
                 othersOfSched>>

\* a loop that a failed re-read ends
RereadStopsOnError(id, readOk) ==
  IF ~readOk THEN FALSE
  ELSE IF ~schedDb[id].present THEN FALSE
  ELSE schedDb[id].enabled

\* a loop that never reads the flag again
RereadNever(id, readOk) == tSched[id].enabled

\* s.enabled after the re-read: False without a row, the row's flag with one,
\* unchanged when the read raised
Reread(id, readOk) ==
  IF ~readOk THEN tSched[id].enabled
  ELSE IF ~schedDb[id].present THEN FALSE
  ELSE schedDb[id].enabled

\* a loop that an error of the send callback ends
SendPropagates(sendOk) == sendOk

\* try: await self._send(s.message) / except Exception: pass -- the loop goes
\* on whether the send returned or raised
SendSwallowed(sendOk) == TRUE

\* _run_schedule: the send is over (an error of it is swallowed), the enabled
\* flag is read again, and `while s.enabled` sleeps again or ends the task
TaskReread(id, sendOk, readOk) ==
  /\ tpc[id] = "sending"
  /\ (~readOk /\ schedDb[id].present /\ ~schedDb[id].enabled)
       => failsSinceOff[id] < MaxReadFails
  /\ tpc' = [tpc EXCEPT ![id] =
               IF SendSwallowed(sendOk) /\ Reread(id, readOk)
               THEN "sleeping" ELSE "ended"]
  /\ tSched' = LiveLocals(tpc', [tSched EXCEPT ![id].enabled = Reread(id, readOk)],
                          NoRow)
  /\ sleepLeft' = LiveLocals(tpc',
                             [sleepLeft EXCEPT ![id] = tSched[id].interval_minutes], 0)
  /\ failsSinceOff' = [failsSinceOff EXCEPT ![id] =
       IF ~readOk /\ schedDb[id].present /\ ~schedDb[id].enabled
       THEN @ + 1 ELSE @]
  /\ waited' = [waited EXCEPT ![id] = 0]
  /\ sendFailed' = LiveLocals(tpc', [sendFailed EXCEPT ![id] = @ \/ ~sendOk], FALSE)
  /\ UNCHANGED wasOff
  /\ UNCHANGED toggleObs
  /\ goneDiff' = [goneDiff EXCEPT ![id] =
                    IF ~schedDb[id].present /\ ~readOk THEN @ - 1 ELSE @]
  /\ UNCHANGED goneSends
  /\ UNCHANGED <<schedDb, schedules, inTasks, sendsSinceOff, schedObs,
                 usedSchedIds,
                 othersOfSched>>

----------------------------------------------------------------------------
(* BatchedClickHouseLogger *)

\* batch_size, batch_time and grace_period of the logger, in seconds
BatchSize == 4
BatchTime == 2
GracePeriod == 2
\* the poll_interval a logger is built with
PollIntervals == {0, 1}
\* the events that are logged, and the seconds that are looked at
MaxEvents == 4
MaxLogNow == 4

NoTs == -1
Max(a, b) == IF a > b THEN a ELSE b

othersOfLog == <<chatVars, handlerVars, histVars, schedVars, listVars, lsnVars, engineVars>>
closeObs == <<closeStart, firstCheck, pollSawLive, stopSetAt, queuedAtStop>>
closeLocals == <<cpc, deadline, closeWake>>
logConfig == <<streamCheck, pollInterval>>

\* _insert: put_nowait on the unbounded queue
LogInsert ==
  /\ nextEv <= MaxEvents
  /\ logQ' = Append(logQ, nextEv)
  /\ nextEv' = nextEv + 1
  /\ UNCHANGED <<buf, first_ts, logStop, wpc, wakeAt, lnow, flushes, logConfig,
                 closeLocals, closeObs, othersOfLog>>

\* a worker that waits batch_time from every q.get, whatever the age of buf
GetTimeoutFromNow == IF first_ts = NoTs THEN 1 ELSE BatchTime

\* _run: the timeout of q.get, from first_ts, capped to a second
GetTimeout ==
  IF first_ts = NoTs THEN 1
  ELSE LET remaining == Max(0, BatchTime - (lnow - first_ts))
       IN IF remaining > 0 THEN Min(1, remaining) ELSE 0

\* _flush: one batched execute with the rows of buf; it returns or raises,
\* and what it raises is swallowed
Flushed(rows, phase, ok) ==
  Append(flushes, [rows |-> rows, phase |-> phase, ok |-> ok,
                   age |-> IF first_ts = NoTs THEN 0 ELSE lnow - first_ts])

\* _run: `while not self._stop.is_set()`, then q.get(timeout) begins
WLoopTop ==
  /\ wpc = "top"
  /\ IF logStop
     THEN wpc' = "drain" /\ UNCHANGED wakeAt
     ELSE wpc' = "get" /\ wakeAt' = lnow + GetTimeout
  /\ UNCHANGED <<logQ, buf, first_ts, logStop, lnow, flushes, logConfig,
                 closeLocals, nextEv, closeObs, othersOfLog>>

\* a worker that keeps the rows of a failed flush for the next one
KeptOnFailure(b, ok) == IF ok THEN <<>> ELSE b

\* _run after self._flush(buf): `buf = []`, whether the sink call returned or
\* raised
AfterFlush(b, ok) == <<>>

\* a q.get that leaves the item it returns in the queue
TakenNothing(queue) == queue

\* q.get: the item returned is removed from the queue
Taken(queue) == Tail(queue)

\* _run: q.get returned an item; it is buffered, and a full buffer flushed
WGetItem(ok) ==
  /\ wpc = "get"
  /\ logQ # <<>>
  /\ LET newBuf == Append(buf, Head(logQ))
     IN /\ logQ' = Taken(logQ)
        /\ IF Len(newBuf) >= BatchSize
           THEN /\ flushes' = Flushed(newBuf, "size", ok)
                /\ buf' = AfterFlush(newBuf, ok)
                /\ first_ts' = NoTs
           ELSE /\ buf' = newBuf
                /\ first_ts' = IF first_ts = NoTs THEN lnow ELSE first_ts
                /\ UNCHANGED flushes
  /\ wpc' = "top"
  /\ UNCHANGED <<logStop, wakeAt, lnow, logConfig, closeLocals, nextEv,
                 closeObs, othersOfLog>>

\* _run: q.get timed out (queue.Empty); a buffer that holds rows is flushed
WGetEmpty(ok) ==
  /\ wpc = "get"
  /\ logQ = <<>>
  /\ lnow >= wakeAt
  /\ IF buf # <<>>
     THEN /\ flushes' = Flushed(buf, "timeout", ok)
          /\ buf' = AfterFlush(buf, ok)
          /\ first_ts' = NoTs
     ELSE UNCHANGED <<flushes, buf, first_ts>>
  /\ wpc' = "top"
  /\ UNCHANGED <<logQ, logStop, wakeAt, lnow, logConfig, closeLocals, nextEv,
                 closeObs, othersOfLog>>

\* a worker that leaves the queue as it is when it stops
DrainedNothing(queue, b) == b

\* _run after the loop: get_nowait until queue.Empty, appended to buf
Drained(queue, b) == b \o queue

\* _run: the loop is left; the queue is drained and what buf holds flushed
WDrain(ok) ==
  /\ wpc = "drain"
  /\ LET all == Drained(logQ, buf)
     IN /\ logQ' = SubSeq(logQ, Len(all) - Len(buf) + 1, Len(logQ))
        /\ flushes' = IF all # <<>> THEN Flushed(all, "drain", ok) ELSE flushes
  /\ buf' = <<>>
  /\ first_ts' = NoTs
  /\ wpc' = "done"
  /\ UNCHANGED <<logStop, wakeAt, lnow, logConfig, closeLocals, nextEv,
                 closeObs, othersOfLog>>

\* self._stop.set(), and then self._thread.join(timeout)
StopSet ==
  /\ logStop' = TRUE
  /\ cpc' = "join"
  /\ stopSetAt' = IF logStop THEN stopSetAt ELSE lnow
  /\ queuedAtStop' = IF logStop THEN queuedAtStop ELSE 1..(nextEv - 1)

\* close(): without a stream_check the worker is stopped at once
CloseBegin ==
  /\ cpc = "none"
  /\ closeStart' = lnow
  /\ IF streamCheck
     THEN /\ cpc' = "first"
          /\ UNCHANGED <<logStop, firstCheck, stopSetAt, queuedAtStop>>
     ELSE /\ StopSet
          /\ firstCheck' = "nopred"
  /\ UNCHANGED <<logQ, buf, first_ts, wpc, wakeAt, lnow, flushes, logConfig,
                 deadline, closeWake, nextEv, pollSawLive, othersOfLog>>

\* close(): the first self._stream_check(); online or an error stops the
\* worker at once, offline starts the grace period
CloseFirst(res) ==
  /\ cpc = "first"
  /\ firstCheck' = res
  /\ IF res = "offline"
     THEN /\ cpc' = "loop"
          /\ deadline' = lnow + GracePeriod
          /\ UNCHANGED <<logStop, stopSetAt, queuedAtStop>>
     ELSE /\ StopSet
          /\ UNCHANGED deadline
  /\ UNCHANGED <<logQ, buf, first_ts, wpc, wakeAt, lnow, flushes, logConfig,
                 closeWake, nextEv, closeStart, pollSawLive, othersOfLog>>

\* close(): one turn of `while time.time() < deadline`: the stream_check, the
\* step, and either the sleep or the end of the loop
CloseLoop(res) ==
  /\ cpc = "loop"
  /\ LET step == Min(pollInterval, Max(0, deadline - lnow))
     IN IF lnow < deadline /\ res # "live" /\ step > 0
        THEN /\ cpc' = "sleep"
             /\ closeWake' = lnow + step
             /\ UNCHANGED <<logStop, stopSetAt, queuedAtStop, pollSawLive>>
        ELSE /\ StopSet
             /\ pollSawLive' = (pollSawLive \/ (lnow < deadline /\ res = "live"))
             /\ UNCHANGED closeWake
  /\ UNCHANGED <<logQ, buf, first_ts, wpc, wakeAt, lnow, flushes, logConfig,
                 deadline, nextEv, closeStart, firstCheck, othersOfLog>>

\* close(): time.sleep(step) is over
CloseWake ==
  /\ cpc = "sleep"
  /\ lnow >= closeWake
  /\ cpc' = "loop"
  /\ UNCHANGED <<logQ, buf, first_ts, logStop, wpc, wakeAt, lnow, flushes,
                 logConfig, deadline, closeWake, nextEv, closeObs, othersOfLog>>

\* close(): self._thread.join(timeout) returns, the worker ended or not
CloseJoin ==
  /\ cpc = "join"
  /\ cpc' = "closed"
  /\ UNCHANGED <<logQ, buf, first_ts, logStop, wpc, wakeAt, lnow, flushes,
                 logConfig, deadline, closeWake, nextEv, closeObs, othersOfLog>>

\* a second passes while the worker waits in q.get or has ended, and close()
\* is not running, sleeps or waits in join
LogTick ==
  /\ lnow < MaxLogNow
  /\ \/ wpc = "get" /\ logQ = <<>> /\ lnow < wakeAt
     \/ wpc = "done"
  /\ \/ cpc \in {"none", "join", "closed"}
     \/ cpc = "sleep" /\ lnow < closeWake
  /\ lnow' = lnow + 1
  /\ UNCHANGED <<logQ, buf, first_ts, logStop, wpc, wakeAt, flushes, logConfig,
                 closeLocals, nextEv, closeObs, othersOfLog>>

----------------------------------------------------------------------------
(* Initial states *)

\* get_trigger_cache's first refresh and ChatClient.__init__'s first call of
\* _on_cache_refresh (an exception there is ignored), on a table holding rows
InitChat(rows) ==
  /\ store = rows
  /\ cached = rows
  /\ cacheLock = Free
  /\ rpc = [t \in {"admin", "auto"} |-> "idle"]
  /\ snapshot = [t \in {"admin", "auto"} |-> <<>>]
  /\ newList = [t \in {"admin", "auto"} |-> <<>>]
  /\ triggers = IF ListenerRaises(rows) THEN <<>> ELSE BuildNew(rows)
  /\ trigLock = Free
  /\ apc = "off"
  /\ stopEv = FALSE
  /\ refreshesSinceStop = 0
  /\ startAsked = FALSE
  /\ sleepTotal = 0
  /\ usedIds = {rows[i].id : i \in 1..Len(rows)}
  /\ cachedAtCall = [t \in {"admin", "auto"} |-> <<>>]
  /\ listeners = <<"engine">>
  /\ pending = [t \in {"admin", "auto"} |-> <<>>]
  /\ copied = [t \in {"admin", "auto"} |-> <<>>]
  /\ called = [t \in {"admin", "auto"} |-> <<>>]
  /\ epc = "idle"
  /\ eid = NoId
  /\ erows = <<>>
  /\ engineAdded = {}
  /\ engineRemoved = {}

InitHandlers ==
  /\ now = StartNow
  /\ hpc = [h \in Handlers |-> "idle"]
  /\ hmsg = [h \in Handlers |-> <<>>]
  /\ scanList = [h \in Handlers |-> <<>>]
  /\ scanIdx = [h \in Handlers |-> 0]
  /\ scanOut = [h \in Handlers |-> <<>>]
  /\ fireIdx = [h \in Handlers |-> 1]
  /\ hlive = [h \in Handlers |-> TRUE]
  /\ sameList = [h \in Handlers |-> TRUE]
  /\ effects = [h \in Handlers |-> <<>>]
  /\ scanSeen = [h \in Handlers |-> <<>>]
  /\ scanStart = [h \in Handlers |-> <<>>]
  /\ swapsSeen = [h \in Handlers |-> {}]
  /\ decisions = [h \in Handlers |-> <<>>]
  /\ lastFireAt = [id \in TriggerIds \cup PresetIds \cup {NoId} |-> 0]
  /\ suppressedN = 0

\* a new Scheduler on a table that holds rows
InitSched(rows) ==
  /\ schedDb = rows
  /\ schedules = [id \in SchedIds |-> NoRow]
  /\ inTasks = {}
  /\ tpc = [id \in SchedIds |-> "none"]
  /\ tSched = [id \in SchedIds |-> NoRow]
  /\ sleepLeft = [id \in SchedIds |-> 0]
  /\ sendsSinceOff = [id \in SchedIds |-> 0]
  /\ failsSinceOff = [id \in SchedIds |-> 0]
  /\ usedSchedIds = {id \in SchedIds : rows[id].present}
  /\ removeReturned = [id \in SchedIds |-> FALSE]
  /\ sentAfterRemove = [id \in SchedIds |-> FALSE]
  /\ stopped = FALSE
  /\ sentSinceStop = FALSE
  /\ stopTouchedDb = FALSE
  /\ waited = [id \in SchedIds |-> 0]
  /\ wasOff = [id \in SchedIds |-> FALSE]
  /\ sendFailed = [id \in SchedIds |-> FALSE]
  /\ started = FALSE
  /\ goneSends = [id \in SchedIds |-> 0]
  /\ goneDiff = [id \in SchedIds |-> 0]
  /\ unseen = [id \in SchedIds |-> -1]

\* a new logger: the worker thread is started by __init__
InitLog(check, poll) ==
  /\ logQ = <<>>
  /\ buf = <<>>
  /\ first_ts = NoTs
  /\ logStop = FALSE
  /\ wpc = "top"
  /\ wakeAt = 0
  /\ lnow = 0
  /\ flushes = <<>>
  /\ streamCheck = check
  /\ pollInterval = poll
  /\ cpc = "none"
  /\ deadline = 0
  /\ closeWake = 0
  /\ nextEv = 1
  /\ closeStart = NoTs
  /\ firstCheck = "none"
  /\ pollSawLive = FALSE
  /\ stopSetAt = NoTs
  /\ queuedAtStop = {}

\* the components a specification is not about
IdleChat == InitChat(<<>>) /\ InitHandlers
IdleSched == InitSched([id \in SchedIds |-> NoRow])
IdleLog == InitLog(FALSE, 1)
InitList == lpc = "idle" /\ listResult = <<>>

----------------------------------------------------------------------------
(* Messages handled one after the other against a trigger list that is not
   reconfigured *)

InitCool ==
  /\ \E rows \in {<<Row(1), Row(3)>>, <<Row(3)>>} : InitChat(rows)
  /\ InitHandlers
  /\ IdleSched
  /\ IdleLog
  /\ InitList

NextCool ==
  \/ \E m \in Messages : HStart("h1", m)
  \/ HScanBegin("h1")
  \/ HScanStep("h1")
  \/ HScanEnd("h1")
  \/ HMark("h1")
  \/ \E ok \in BOOLEAN : HPersist("h1", ok)
  \/ \E ok \in BOOLEAN : HEmit("h1", ok)
  \/ Tick

SpecCool == InitCool /\ [][NextCool]_vars

\* C2: cooldown.  Whenever a scan looks at a trigger that matches the
\* message, it selects the trigger exactly when at least cooldownMinutes * 60
\* seconds have passed since the trigger's latest fire (a trigger that never
\* fired is selected); every selected trigger is then fired, and a trigger
\* that was held back produces no reply, no alert and no lastFiredAt update.
C2_Cooldown ==
  \A h \in Handlers :
    /\ \A i \in 1..Len(decisions[h]) :
         LET d == decisions[h][i]
         IN /\ d.selected <=> (d.at - d.prev >= d.cd * 60)
            /\ ~d.selected => /\ lastFireAt[d.id] = d.prev
                              /\ \A k \in 1..Len(effects[h]) :
                                   effects[h][k].id # d.id
    /\ (hpc[h] = "idle" /\ decisions[h] # <<>>) =>
         \A d \in Range(decisions[h]) :
           d.selected =>
             /\ \E e \in Range(effects[h]) : e.kind = "mark" /\ e.id = d.id
             /\ \E e \in Range(effects[h]) :
                  e.kind \in {"reply", "alert"} /\ e.id = d.id
             /\ lastFireAt[d.id] >= d.at


----------------------------------------------------------------------------
(* Refreshes through notify_change() against a running message handler *)

InitSwap ==
  /\ \E rows \in {<<Row(1)>>, <<Row(1), Row(3)>>} : InitChat(rows)
  /\ InitHandlers
  /\ IdleSched
  /\ IdleLog
  /\ InitList

NextSwap ==
  \/ \E id \in TriggerIds : AdminCreate(id)
  \/ \E id \in TriggerIds : AdminDelete(id)
  \/ RLock("admin")
  \/ RReadOk("admin")
  \/ RListener("admin")
  \/ RSwap("admin")
  \/ NotifyChangeReturn
  \/ \E m \in Messages : HStart("h1", m)
  \/ HScanBegin("h1")
  \/ HScanStep("h1")
  \/ HScanEnd("h1")
  \/ HMark("h1")
  \/ \E ok \in BOOLEAN : HPersist("h1", ok)
  \/ \E ok \in BOOLEAN : HEmit("h1", ok)

SpecSwap == InitSwap /\ [][NextSwap]_vars

\* C1: a match scan that has run to its end has iterated exactly the list
\* that was active when it started or exactly a list swapped in while it
\* ran: never a mixture of two lists, never a part of one.
C1_ScanSeesOneGeneration ==
  \A h \in Handlers :
    hpc[h] \notin {"to_thread", "scan"} =>
      \E gen \in {scanStart[h]} \cup swapsSeen[h] :
        IdsOf(scanSeen[h]) = IdsOf(gen)

\* a scan is under way, has seen a trigger, and a refresh holding a different
\* list waits to swap it in
C1_Witness ==
  /\ hpc["h1"] = "scan"
  /\ scanIdx["h1"] >= 1
  /\ rpc["admin"] = "swap"
  /\ IdsOf(newList["admin"]) # IdsOf(triggers)

\* C36: a trigger with cooldown_minutes = N > 0 that fired at time t is not
\* selected for a matching message scanned before t + N * 60, whatever
\* refresh swapped in a new list around that fire.
C36_CooldownSurvivesRefresh ==
  \A h \in Handlers :
    \A i \in 1..Len(decisions[h]) :
      LET d == decisions[h][i]
      IN (d.cd > 0 /\ d.prev > 0 /\ d.at < d.prev + d.cd * 60) => ~d.selected

\* rows of the table whose pattern compiles, in table order
CompilableRows(rows) ==
  SelectSeq(rows, LAMBDA st : Compilable(st.regex_pattern))

\* C7: once refresh() has read the store and while the store is as it was
\* read, list() returns exactly the store's rows whose pattern compiles, in
\* store order.
C7_SnapshotIsCompilableRows ==
  \A t \in Refreshers :
    (rpc[t] \in {"notify", "swap", "returned"} /\ snapshot[t] = store
       /\ cacheLock = Free)
      => ListCachedTriggers = CompilableRows(store)

\* C10: once a refresh has returned and while the store is as it was read,
\* the chat client's active list holds a trigger for every store row whose
\* pattern compiles, in store order, and for no other row.
C10_ValidTriggersPublished ==
  \A t \in Refreshers :
    (rpc[t] = "returned" /\ snapshot[t] = store)
      => IdsOf(triggers) = IdsOf(CompilableRows(store))

----------------------------------------------------------------------------
(* add_trigger / remove_trigger against refreshes and a running scan *)

InitEngine ==
  /\ \E rows \in {<<Row(1)>>, <<Row(1), Row(3)>>} : InitChat(rows)
  /\ InitHandlers
  /\ IdleSched
  /\ IdleLog
  /\ InitList

NextEngine ==
  \/ \E id \in TriggerIds : EngineAddStore(id)
  \/ EngineAddAppend
  \/ \E id \in TriggerIds : EngineRemoveStore(id)
  \/ EngineRemoveClear
  \/ EngineRemoveRead
  \/ EngineRemoveAppend
  \/ \E id \in TriggerIds : AdminDelete(id)
  \/ RLock("admin")
  \/ RReadOk("admin")
  \/ RListener("admin")
  \/ RSwap("admin")
  \/ NotifyChangeReturn
  \/ \E m \in Messages : HStart("h1", m)
  \/ HScanBegin("h1")
  \/ HScanStep("h1")
  \/ HScanEnd("h1")

SpecEngine == InitEngine /\ [][NextEngine]_vars

\* self.triggers holds a Trigger built of the row with this id
IsActive(id) ==
  \E i \in 1..Len(triggers) :
    /\ triggers[i].id \in {id, NoId}
    /\ triggers[i].pattern = Row(id).regex_pattern
    /\ triggers[i].cooldown_minutes = Row(id).cooldown_minutes

\* C29: whenever no add_trigger or remove_trigger call is under way, every
\* trigger add_trigger has returned, and whose row is still in the store, is
\* in the chat client's active list, and no trigger remove_trigger has
\* returned True for is in it: a refresh in flight reverts neither.
C29_EngineChangeStaysActive ==
  epc = "idle" =>
    /\ \A id \in engineAdded \cap StoreIds : IsActive(id)
    /\ \A id \in engineRemoved : ~IsActive(id)

\* C37: once remove_trigger has returned True, every Trigger that remains
\* in self.triggers still has the id of its store row.
C37_RemainingKeepIds ==
  (epc = "idle" /\ engineRemoved # {}) =>
    \A i \in 1..Len(triggers) : triggers[i].id # NoId

\* remove_trigger has cleared self.triggers and not yet appended the last
\* Trigger of its rebuild
UnderRebuild ==
  \/ epc = "rm_read" /\ Handled(store) # <<>>
  \/ epc = "rm_append" /\ Handled(erows) # <<>>

\* C30: no turn of a scan's loop over the list object self.triggers names
\* runs while remove_trigger has that list emptied or partly rebuilt.
C30_NoScanTurnOnListUnderRebuild ==
  [][\A h \in Handlers :
       (hpc[h] = "scan" /\ sameList[h]
          /\ (scanIdx'[h] # scanIdx[h] \/ hpc'[h] # "scan"))
         => ~UnderRebuild]_vars

----------------------------------------------------------------------------
(* The auto-refresh thread against a store whose reads can fail *)

InitAuto ==
  /\ InitChat(<<Row(1)>>)
  /\ InitHandlers
  /\ IdleSched
  /\ IdleLog
  /\ InitList

NextAuto ==
  \/ StartAutoRefresh
  \/ StopAutoRefresh
  \/ \E res \in CheckResults : AutoFirstCheck(res)
  \/ AutoFirstRefreshOver
  \/ AutoRetryOver
  \/ AutoLoopTop
  \/ \E res \in CheckResults : AutoLoopCheck(res)
  \/ AutoLoopRefreshOver
  \/ AutoSleep
  \/ \E t \in Refreshers : RLock(t)
  \/ \E t \in Refreshers : RReadOk(t)
  \/ \E t \in Refreshers : RReadFail(t)
  \/ \E t \in Refreshers : RListener(t)
  \/ \E t \in Refreshers : RSwap(t)
  \/ \E id \in TriggerIds : AdminCreate(id)
  \/ \E id \in TriggerIds : AdminDelete(id)
  \/ NotifyChangeReturn

SpecAuto == InitAuto /\ [][NextAuto]_vars

\* C8: when the store read of a refresh() fails, refresh() does not raise to
\* its caller, _cached is what it was when the call took the lock, and the
\* listener is not handed a list.
C8_ReadFailureSwallowed ==
  \A t \in Refreshers :
    /\ rpc[t] # "raised"
    /\ rpc[t] = "read" => cached = cachedAtCall[t]

\* C9: the auto-refresh thread ends only because stop_auto_refresh() was
\* called: never because a store read or stream_check() raised.
C9_LoopSurvivesErrors ==
  /\ apc # "crashed"
  /\ apc = "exited" => stopEv

\* C27: the auto-refresh thread calls refresh() only when the stream_check()
\* it has just called returned true: every refresh() it begins after a check
\* begins in the branch of a check that returned true.
C27_RefreshOnlyWhenLive ==
  [][(apc \in {"first_check", "loop_check"} /\ rpc["auto"] # "lock"
        /\ rpc'["auto"] = "lock")
       => (AutoFirstCheck("live") \/ AutoLoopCheck("live"))]_vars

\* C34: when no refresh() is under way and the cache's snapshot holds only
\* rows the listener can build, the chat client's active list is built of that
\* snapshot: the triggers of its rows, in its order.
C34_ActiveListOfCurrentSnapshot ==
  ((\A t \in Refreshers : rpc[t] \in {"idle", "returned", "raised"})
     /\ ~ListenerRaises(cached))
    => IdsOf(triggers) = IdsOf(Handled(cached))

\* C38: while start_auto_refresh() is the latest of the two calls to have
\* returned, the auto-refresh thread has not left its loop.
C38_RunningAfterRestart == startAsked => apc # "exited"

\* C28: once stop_auto_refresh() has set _stop, the auto-refresh thread begins
\* at most one further refresh().
C28_OneRefreshAfterStop == refreshesSinceStop <= 1

----------------------------------------------------------------------------
(* The scheduler, an external actor writing the enabled flag, and a store
   whose reads can fail *)

InitSchedSpec ==
  /\ IdleChat
  /\ IdleLog
  /\ InitList
  /\ \E rows \in {[id \in SchedIds |-> NoRow],
                  [id \in SchedIds |-> IF id = 1 THEN SchedRow(1, TRUE) ELSE NoRow]} :
       InitSched(rows)

NextSched ==
  \/ \E id \in SchedIds, i \in Intervals, b \in BOOLEAN : SchedAdd(id, i, b)
  \/ \E id \in SchedIds : SchedRemove(id)
  \/ SchedStart
  \/ SchedStop
  \/ \E id \in SchedIds, b \in BOOLEAN : ExtSetEnabled(id, b)
  \/ SchedTick
  \/ \E id \in SchedIds : TaskSend(id)
  \/ \E id \in SchedIds, sendOk, readOk \in BOOLEAN : TaskReread(id, sendOk, readOk)

SpecSched == InitSchedSpec /\ [][NextSched]_vars

\* C3 as stated: while the flag an external actor wrote stays false, the send
\* callback is invoked at most once more.
C3_AtMostOneMoreSend ==
  \A id \in SchedIds :
    (schedDb[id].present /\ ~schedDb[id].enabled) => sendsSinceOff[id] <= 1

\* C3 as amended: while the flag an external actor wrote stays false, the
\* send callback is invoked at most once more, plus once for every re-read
\* of the flag that failed since the write; once a re-read has succeeded no
\* task of the schedule is left running.
C3_OneMoreSendPerFailedReread ==
  \A id \in SchedIds :
    (schedDb[id].present /\ ~schedDb[id].enabled) =>
      /\ sendsSinceOff[id] <= 1 + failsSinceOff[id]
      /\ (sendsSinceOff[id] > failsSinceOff[id]) =>
           tpc[id] \notin {"sleeping"}

\* a running schedule was switched off in the store, fired once more, failed
\* to read the flag, fired again, read the flag and ended
C3_Witness ==
  \E id \in SchedIds :
    /\ schedDb[id].present /\ ~schedDb[id].enabled
    /\ sendsSinceOff[id] = 2
    /\ failsSinceOff[id] = 1
    /\ tpc[id] = "ended"

----------------------------------------------------------------------------
(* The telemetry logger: events are logged, the worker batches them, and
   close() is called at some moment *)

InitLogSpec ==
  /\ IdleChat
  /\ IdleSched
  /\ InitList
  /\ \E check \in BOOLEAN, poll \in PollIntervals : InitLog(check, poll)

NextLog ==
  \/ LogInsert
  \/ WLoopTop
  \/ \E ok \in BOOLEAN : WGetItem(ok)
  \/ \E ok \in BOOLEAN : WGetEmpty(ok)
  \/ \E ok \in BOOLEAN : WDrain(ok)
  \/ CloseBegin
  \/ \E res \in CheckResults : CloseFirst(res)
  \/ \E res \in CheckResults : CloseLoop(res)
  \/ CloseWake
  \/ CloseJoin
  \/ LogTick

SpecLog == InitLogSpec /\ [][NextLog]_vars

\* C4: while the worker is not shutting down, a flush of fewer than
\* batchSize rows is made only when the oldest buffered row has waited
\* batchTime seconds, and a flush never holds more than batchSize rows.
C4_FlushOnlyWhenFullOrOld ==
  \A i \in 1..Len(flushes) :
    flushes[i].phase # "drain" =>
      /\ Len(flushes[i].rows) <= BatchSize
      /\ Len(flushes[i].rows) < BatchSize => flushes[i].age >= BatchTime

\* C5: when the first check of close() reported the stream not live, the
\* stop signal is not given before a later poll saw it live or the grace
\* period has elapsed since close() began.
C5_StopNotBeforeLiveOrGrace ==
  (logStop /\ firstCheck = "offline") =>
    \/ pollSawLive
    \/ stopSetAt >= closeStart + GracePeriod

\* C6: once the worker has terminated, every event that was logged before
\* the stop signal has been passed to the sink.
C6_DrainedBeforeTermination ==
  wpc = "done" =>
    \A e \in queuedAtStop : \E i \in 1..Len(flushes) : e \in Range(flushes[i].rows)

\* the grace period ran out with one event buffered and more queued, and the
\* worker flushed them all in its last call of the sink
C6_Witness ==
  /\ wpc = "done"
  /\ firstCheck = "offline" /\ ~pollSawLive
  /\ \E i \in 1..Len(flushes) :
       flushes[i].phase = "drain" /\ Len(flushes[i].rows) >= 2

\* C39: whenever the worker has terminated the queue is empty: no event that
\* log() accepted is left where nothing will ever pass it to the sink.
C39_NothingStranded == wpc = "done" => logQ = <<>>

\* C23: a buffered event is passed to the sink no later than batchTime
\* seconds, plus one wake-up of a second, after the oldest event of its buffer
\* was buffered, whatever events arrive meanwhile.
C23_FlushedWithinBatchTime ==
  /\ first_ts # NoTs => lnow - first_ts <= BatchTime + 1
  /\ \A i \in 1..Len(flushes) : flushes[i].age <= BatchTime + 1

\* events kept arriving, the buffer stayed below batchSize, and it was flushed
\* when its oldest event had waited batchTime seconds
C23_Witness ==
  \E i \in 1..Len(flushes) :
    /\ flushes[i].phase = "timeout"
    /\ flushes[i].age = BatchTime
    /\ Len(flushes[i].rows) > 2
    /\ Len(flushes[i].rows) < BatchSize

\* the rows of the first n calls of the sink, in the order they were passed
RECURSIVE RowsOf(_)
RowsOf(n) == IF n = 0 THEN <<>> ELSE RowsOf(n - 1) \o flushes[n].rows

\* C24: every logged event is consumed exactly once and in enqueue order: the
\* rows of the sink calls, then the buffer, then the queue are the events in
\* the order they were logged, each once; a worker that has ended holds none.
C24_ConsumedOnceInOrder ==
  /\ RowsOf(Len(flushes)) \o buf \o logQ = [e \in 1..(nextEv - 1) |-> e]
  /\ wpc = "done" => buf = <<>>

\* all events were logged while the worker ran, and they went to the sink in
\* more than one call, one of them with several rows
C24_Witness ==
  /\ nextEv - 1 = MaxEvents
  /\ logQ = <<>> /\ buf = <<>>
  /\ ~logStop
  /\ Len(flushes) >= 2
  /\ \E i \in 1..Len(flushes) : Len(flushes[i].rows) >= 2

\* C25: when a call of the sink fails the worker keeps running (it ends only
\* after the stop signal), the rows of that call are dropped, in no later
\* call and not in the buffer, and the buffer starts afresh for later events.
C25_FailedFlushDropped ==
  /\ wpc \in {"drain", "done"} => logStop
  /\ (buf = <<>>) <=> (first_ts = NoTs)
  /\ \A i \in 1..Len(flushes) :
       ~flushes[i].ok =>
         /\ Range(flushes[i].rows) \cap Range(buf) = {}
         /\ \A j \in (i + 1)..Len(flushes) :
              Range(flushes[i].rows) \cap Range(flushes[j].rows) = {}

\* a call of the sink failed, and the running worker passed events logged
\* later to the sink in a call that succeeded
C25_Witness ==
  /\ ~logStop
  /\ \E i, j \in 1..Len(flushes) :
       /\ i < j
       /\ ~flushes[i].ok
       /\ flushes[j].ok

----------------------------------------------------------------------------
(* list_cached_triggers() called while notify_change() refreshes *)

InitListSpec ==
  /\ \E rows \in {<<Row(1)>>, <<Row(1), Row(3)>>} : InitChat(rows)
  /\ InitHandlers
  /\ IdleSched
  /\ IdleLog
  /\ InitList

NextList ==
  \/ \E id \in TriggerIds : AdminCreate(id)
  \/ \E id \in TriggerIds : AdminDelete(id)
  \/ RLock("admin")
  \/ RReadOk("admin")
  \/ RReadFail("admin")
  \/ RListener("admin")
  \/ RSwap("admin")
  \/ NotifyChangeReturn
  \/ ListCall
  \/ ListReturn

SpecList == InitListSpec /\ [][NextList]_vars

\* C11: a list() call never waits for store I/O: no call of list() is pending
\* at the cache lock while a refresh() holds that lock for its store read.
C11_ListNeverWaitsForRead ==
  \A t \in Refreshers :
    (rpc[t] = "read" /\ cacheLock = t) => lpc # "lock"

\* C26: when notify_change() returns after a write to the trigger store, the
\* cache's list and the chat client's trigger list both reflect the write:
\* a created trigger is in them, a deleted trigger is in neither.
C26_NotifyPublishesWrite ==
  [][NotifyChangeReturn =>
       /\ IdsOf(ListCachedTriggers') = IdsOf(store')
       /\ IdsOf(triggers') = IdsOf(store')]_vars

----------------------------------------------------------------------------
(* Messages that several triggers match, reply and alert triggers, an alert
   trigger without argument mappings, failing store writes and sends, and
   triggers deleted through the admin API while messages are handled *)

InitFire ==
  /\ \E rows \in {<<Row(1), Row(3), Row(4)>>, <<Row(3), Row(1)>>} : InitChat(rows)
  /\ InitHandlers
  /\ IdleSched
  /\ IdleLog
  /\ InitList

NextFire ==
  \/ \E m \in MessagesFire : HStart("h1", m)
  \/ HScanBegin("h1")
  \/ HScanStep("h1")
  \/ HScanEnd("h1")
  \/ HMark("h1")
  \/ \E ok \in BOOLEAN : HPersist("h1", ok)
  \/ \E ok \in BOOLEAN : HEmit("h1", ok)
  \/ \E id \in TriggerIds \cup PresetIds : AdminDelete(id)
  \/ RLock("admin")
  \/ RReadOk("admin")
  \/ RListener("admin")
  \/ RSwap("admin")
  \/ NotifyChangeReturn

SpecFire == InitFire /\ [][NextFire]_vars

\* the decisions of a scan that selected the trigger, in scan order
Selected(h) == SelectSeq(decisions[h], LAMBDA d : d.selected)
\* the mark_fired calls, and the replies and alerts, of a handler, in order
Marks(h) == SelectSeq(effects[h], LAMBDA e : e.kind = "mark")
Outs(h) == SelectSeq(effects[h], LAMBDA e : e.kind \in {"reply", "alert"})
KindOf(id) == IF Row(id).response_type_id = 1 THEN "reply" ELSE "alert"

\* C12: when a message has been handled, every trigger that matched it with
\* its cooldown elapsed has fired exactly once, and the replies and alerts
\* were emitted one per such trigger, in the order of the snapshot.
C12_AllFireInSnapshotOrder ==
  \A h \in Handlers :
    (hpc[h] = "idle" /\ decisions[h] # <<>>) =>
      /\ Len(Marks(h)) = Len(Selected(h))
      /\ \A i \in 1..Len(Marks(h)) : Marks(h)[i].id = Selected(h)[i].id
      /\ Len(Outs(h)) = Len(Selected(h))
      /\ \A i \in 1..Len(Outs(h)) :
           /\ Outs(h)[i].id = Selected(h)[i].id
           /\ Outs(h)[i].kind = KindOf(Selected(h)[i].id)

\* the number of effects of a handler of one kind for one trigger
CountOf(h, kind, id) ==
  Cardinality({k \in 1..Len(effects[h]) :
                 effects[h][k].kind = kind /\ effects[h][k].id = id})

\* C13: when a message has been handled, every ALERT trigger that matched it
\* with its cooldown elapsed had the alert callback invoked exactly once, with
\* the payload built for it, whatever its argument mapping; no ALERT trigger
\* is marked fired without the callback being invoked.
C13_AlertInvokedOnce ==
  \A h \in Handlers :
    (hpc[h] = "idle" /\ decisions[h] # <<>>) =>
      \A i \in 1..Len(scanOut[h]) :
        KindOf(scanOut[h][i].id) = "alert" =>
          /\ CountOf(h, "mark", scanOut[h][i].id) = 1
          /\ CountOf(h, "alert", scanOut[h][i].id) = 1
          /\ \A k \in 1..Len(effects[h]) :
               (effects[h][k].kind = "alert" /\ effects[h][k].id = scanOut[h][i].id)
                 => effects[h][k].arg = scanOut[h][i].alert

\* C14: when a message has been handled, every REPLY trigger of the scanned
\* list with cooldownMinutes = 0 was given exactly one reply with its
\* responseText if its pattern occurs in the message, and none otherwise.
C14_ZeroCooldownAlwaysReplies ==
  \A h \in Handlers :
    (hpc[h] = "idle" /\ hmsg[h] # <<>>) =>
      \A i \in 1..Len(scanSeen[h]) :
        LET trig == scanSeen[h][i]
        IN (KindOf(trig.id) = "reply" /\ trig.cooldown_minutes = 0) =>
             /\ CountOf(h, "reply", trig.id) =
                  IF Matches(trig, hmsg[h]) THEN 1 ELSE 0
             /\ \A k \in 1..Len(effects[h]) :
                  (effects[h][k].kind = "reply" /\ effects[h][k].id = trig.id)
                    => effects[h][k].arg = trig.response

\* a REPLY trigger without cooldown replied to a message handled in the very
\* second of its previous fire
C14_Witness ==
  /\ hpc["h1"] = "idle"
  /\ \E d \in Range(decisions["h1"]) :
       /\ KindOf(d.id) = "reply" /\ d.cd = 0
       /\ d.selected /\ d.prev = d.at
       /\ CountOf("h1", "reply", d.id) = 1

\* C15: when a message has been handled and a store write, a reply or an
\* alert callback failed for one of its triggers, every trigger that matched
\* with its cooldown elapsed was still marked fired, had its lastFiredAt
\* write attempted and had its reply or alert attempted.
C15_FailureIsolated ==
  \A h \in Handlers :
    (hpc[h] = "idle" /\ \E k \in 1..Len(effects[h]) : ~effects[h][k].ok) =>
      \A i \in 1..Len(Selected(h)) :
        LET id == Selected(h)[i].id
        IN /\ CountOf(h, "mark", id) = 1
           /\ CountOf(h, "persist", id) = 1
           /\ CountOf(h, KindOf(id), id) = 1

\* C16: when start() returns, every schedule that is enabled in the store has
\* a running timer, and start() has started no timer for a schedule that is
\* disabled in the store.
C16_StartRunsEveryEnabled ==
  [][SchedStart =>
       /\ \A id \in SchedIds :
            (schedDb'[id].present /\ schedDb'[id].enabled)
              => tpc'[id] \in {"sleeping", "sending"}
       /\ \A id \in inTasks' \ inTasks :
            schedDb'[id].present /\ schedDb'[id].enabled]_vars

\* C17: add with an interval that is not positive is rejected: no schedule
\* with such an interval is ever in the store, in the in-memory map, or run by
\* a task.
C17_NoNonPositiveInterval ==
  \A id \in SchedIds :
    /\ schedDb[id].present => schedDb[id].interval_minutes > 0
    /\ schedules[id].present => schedules[id].interval_minutes > 0
    /\ tSched[id].present => tSched[id].interval_minutes > 0

\* C19: stop() cancels every running timer and leaves the running-task set
\* empty; until start() is called again no timer runs and the send callback is
\* not invoked; stop() leaves the schedules table as it was.
C19_StopCancelsAll ==
  stopped =>
    /\ inTasks = {}
    /\ \A id \in SchedIds : tpc[id] \notin {"sleeping", "sending"}
    /\ ~sentSinceStop
    /\ ~stopTouchedDb

\* stop() has cancelled a timer of every schedule, and the schedules are
\* still enabled in the store
C19_Witness ==
  /\ stopped
  /\ \A id \in SchedIds :
       tpc[id] = "cancelled" /\ schedDb[id].present /\ schedDb[id].enabled

\* C20: a timer that start() created for a schedule with interval I invokes
\* the send callback for the first time exactly I minutes after that start(),
\* never earlier, and after every send, failed or not, exactly I minutes
\* later again: while the schedule has stayed enabled in the store and
\* neither stop() nor remove() cancelled the timer, the timer is running.
C20_FiresEveryInterval ==
  \A id \in SchedIds :
    /\ tpc[id] = "sleeping" =>
         waited[id] + sleepLeft[id] = tSched[id].interval_minutes
    /\ tpc[id] = "sending" => waited[id] = tSched[id].interval_minutes
    /\ (tSched[id].present /\ schedDb[id].present) =>
         tSched[id].interval_minutes = schedDb[id].interval_minutes
    /\ (id \in inTasks /\ ~wasOff[id]) => tpc[id] \in {"sleeping", "sending"}

\* a timer whose send has failed fires again, a whole interval of two minutes
\* later, for a schedule that has stayed enabled
C20_Witness ==
  \E id \in SchedIds :
    /\ tpc[id] = "sending"
    /\ sendFailed[id]
    /\ ~wasOff[id]
    /\ tSched[id].interval_minutes = 2
    /\ waited[id] = 2

\* C40: every timer that runs belongs to an id in self._tasks; start() creates
\* a timer only for an id that has none running, so no id ever has two; and
\* a timer invokes the send callback only after it has waited a whole
\* interval since start() created it or since its previous send.
C40_OneTimerPerSchedule ==
  /\ [](\A id \in SchedIds :
          tpc[id] \in {"sleeping", "sending"} => id \in inTasks)
  /\ [][SchedStart =>
          \A id \in ToStart : tpc[id] \notin {"sleeping", "sending"}]_vars
  /\ [][\A id \in SchedIds :
          (tpc[id] = "sleeping" /\ tpc'[id] = "sending")
            => waited[id] = tSched[id].interval_minutes]_vars

\* a timer fires after a whole interval while the loop of the other schedule
\* has ended by itself and start() has been called since the last stop()
C40_Witness ==
  /\ started
  /\ \E id \in SchedIds :
       /\ tpc[id] = "sending" /\ id \in inTasks
       /\ tSched[id].interval_minutes >= 1
       /\ \E other \in SchedIds \ {id} :
            tpc[other] = "ended" /\ other \in inTasks

\* C21: a started scheduler observes an external write of enabled = true
\* within one interval, with no further start() call: after the write the
\* schedule is never without a running timer for longer than its interval.
C21_EnableObservedWithinInterval ==
  \A id \in SchedIds :
    schedDb[id].present => unseen[id] <= schedDb[id].interval_minutes

\* The scheduler with one schedule, whose row an external actor may also
\* delete
DeleteIds == {1}

NextSchedDelete ==
  \/ \E id \in DeleteIds, i \in Intervals, b \in BOOLEAN : SchedAdd(id, i, b)
  \/ \E id \in DeleteIds : SchedRemove(id)
  \/ SchedStart
  \/ SchedStop
  \/ \E id \in DeleteIds, b \in BOOLEAN : ExtSetEnabled(id, b)
  \/ \E id \in DeleteIds : ExtDelete(id)
  \/ SchedTick
  \/ \E id \in DeleteIds : TaskSend(id)
  \/ \E id \in DeleteIds, sendOk, readOk \in BOOLEAN : TaskReread(id, sendOk, readOk)

SpecSchedDelete == InitSchedSpec /\ [][NextSchedDelete]_vars

\* C18: when remove(id) is called while a timer is running for id, the timer
\* is cancelled whether or not a row was deleted by the call: for that
\* schedule the send callback is never invoked after remove(id) has returned.
C18_NoSendAfterRemove ==
  \A id \in SchedIds :
    /\ ~sentAfterRemove[id]
    /\ removeReturned[id] => tpc[id] \notin {"sleeping", "sending"}

\* C22 as stated: after an external delete of its row the loop fires at most
\* once more.
C22_DeleteEndsLoopAfterOneFire ==
  \A id \in usedSchedIds :
    ~schedDb[id].present => goneSends[id] <= 1

\* the loop ends only after a send, when the store has the flag false or no
\* row; otherwise it sleeps a whole interval again with enabled still true
LoopStep(id) ==
  /\ (tpc[id] = "sending" /\ tpc'[id] = "ended") => StoreSaysStop(id)
  /\ (tpc[id] = "sending" /\ tpc'[id] = "sleeping") =>
       /\ tSched'[id].enabled
       /\ sleepLeft'[id] = tSched'[id].interval_minutes

\* C22 as amended: after an external delete the loop fires at most once more,
\* plus once for every re-read that failed since the delete, and once a
\* re-read has succeeded it has ended; a failed re-read never ends the loop,
\* which keeps enabled = true and sleeps the next interval.
C22_DeleteStopsFailedReadContinues ==
  /\ [](\A id \in usedSchedIds :
          ~schedDb[id].present =>
            /\ goneDiff[id] <= 1
            /\ goneDiff[id] = 1 => tpc[id] # "sleeping")
  /\ [][\A id \in SchedIds : LoopStep(id)]_vars

\* the row of a running schedule was deleted externally, the loop fired,
\* failed to re-read the flag, fired again, found no row and ended
C22_Witness ==
  \E id \in usedSchedIds :
    /\ ~schedDb[id].present
    /\ ~removeReturned[id]
    /\ goneSends[id] = 2
    /\ goneDiff[id] = 1
    /\ tpc[id] = "ended"


----------------------------------------------------------------------------
(* A handler against another holder of the trigger guard *)

NextGuard ==
  \/ GuardAcquire
  \/ GuardRelease
  \/ \E m \in Messages : HStart("h1", m)
  \/ HScanBegin("h1")
  \/ HScanStep("h1")
  \/ HScanEnd("h1")
  \/ HMark("h1")
  \/ \E ok \in BOOLEAN : HPersist("h1", ok)
  \/ \E ok \in BOOLEAN : HEmit("h1", ok)

\* the holder releases the lock, a thread waiting for a lock that is released
\* again and again gets it, and the event loop and the worker thread run
SpecGuard ==
  /\ InitCool
  /\ [][NextGuard]_vars
  /\ WF_vars(GuardRelease)
  /\ SF_vars(HScanBegin("h1"))
  /\ WF_vars(HScanStep("h1") \/ HScanEnd("h1") \/ HMark("h1"))
  /\ WF_vars(\E ok \in BOOLEAN : HPersist("h1", ok))
  /\ WF_vars(\E ok \in BOOLEAN : HEmit("h1", ok))

\* C31: while another party holds _triggers_lock a handler waiting to scan
\* stays where it is and emits nothing; every handler that has been handed a
\* message runs to its end, and when the message matches a REPLY trigger of
\* the active list whose cooldown is 0 it then has called reply_callable for it.
C31_DelayedNeverDropped ==
  /\ [][\A h \in Handlers :
          (trigLock = "other" /\ hpc[h] = "to_thread")
            => (hpc'[h] = "to_thread" /\ effects'[h] = <<>>)]_vars
  /\ \A m \in Messages :
       (hpc["h1"] = "to_thread" /\ hmsg["h1"] = m)
         ~> (/\ hpc["h1"] = "idle"
             /\ hmsg["h1"] = m
             /\ \A i \in 1..Len(triggers) :
                  (KindOf(triggers[i].id) = "reply"
                     /\ triggers[i].cooldown_minutes = 0
                     /\ Matches(triggers[i], m))
                    => CountOf("h1", "reply", triggers[i].id) = 1)

\* a handler whose message matches the REPLY trigger waits for the lock that
\* another party holds
C31_Witness ==
  /\ trigLock = "other"
  /\ hpc["h1"] = "to_thread"
  /\ \E i \in 1..Len(triggers) :
       KindOf(triggers[i].id) = "reply" /\ Matches(triggers[i], hmsg["h1"])


----------------------------------------------------------------------------
(* Two messages handled by one event loop *)

NextIngest ==
  \/ \E h \in Handlers, m \in Messages : HStart(h, m)
  \/ \E h \in Handlers : HScanBegin(h)
  \/ \E h \in Handlers : HScanStep(h)
  \/ \E h \in Handlers : HScanEnd(h)
  \/ \E h \in Handlers : HMark(h)
  \/ \E h \in Handlers, ok \in BOOLEAN : HPersist(h, ok)
  \/ \E h \in Handlers, ok \in BOOLEAN : HEmit(h, ok)

SpecIngest == InitCool /\ [][NextIngest]_vars

\* C32: while the scan of one message runs or waits for the lock, or its
\* update_last_fired() write is under way, the event loop can start handling
\* the next message.
C32_IngestNeverBlocked ==
  \A h \in Handlers :
    hpc[h] \in {"to_thread", "scan", "persist"} =>
      \A g \in Handlers \ {h} :
        hpc[g] = "idle" => \E m \in Messages : ENABLED HStart(g, m)


----------------------------------------------------------------------------
(* refresh() notifying listeners that come and go *)

NextListeners ==
  \/ \E id \in TriggerIds : AdminCreate(id)
  \/ RLock("admin")
  \/ RReadOk("admin")
  \/ LNotify("admin")
  \/ \E op \in ListenerOps, x \in ListenerIds : LCall("admin", op, x)
  \/ NotifyChangeReturn
  \/ \E x \in ListenerIds : Register(x)
  \/ \E x \in ListenerIds : Unregister(x)

SpecListeners == InitSwap /\ [][NextListeners]_vars

\* C33: a refresh() that has read the store calls the listeners of the copy
\* it took of the registered listeners, in order, each once, whatever the
\* listeners before did (raised, registered, unregistered, read the cache),
\* each with the snapshot it read, never while it holds the cache lock; and it
\* returns without raising.
C33_ListenersEachOnce ==
  \A t \in Refreshers :
    /\ rpc[t] # "raised"
    /\ rpc[t] = "calling" => cacheLock # t
    /\ rpc[t] \in {"calling", "returned"} =>
         /\ [i \in 1..Len(called[t]) |-> called[t][i].listener] \o pending[t]
              = copied[t]
         /\ \A i \in 1..Len(called[t]) : called[t][i].arg = snapshot[t]
         /\ rpc[t] = "returned" => pending[t] = <<>>

\* a refresh() has returned whose first listener raised, whose second called
\* back into the cache, and whose loop saw the registrations change
C33_Witness ==
  /\ rpc["admin"] = "returned"
  /\ Len(called["admin"]) >= 2
  /\ called["admin"][1].op = "raise"
  /\ called["admin"][2].op \in {"list", "register", "unregister"}
  /\ listeners # copied["admin"]


\* C35: a trigger with cooldown_minutes > 0 does not fire for the messages of
\* both handlers inside one cooldown period (time stands still here: every
\* fire is in the second of the first).
C35_OneFirePerCooldown ==
  \A id \in TriggerIds :
    Row(id).cooldown_minutes > 0 =>
      ~(\A h \in Handlers :
          \E e \in Range(effects[h]) :
            e.kind \in {"reply", "alert"} /\ e.id = id)

====
